---- MODULE Spec2Model ----
(***************************************************************************)
(* ecolint: the .env line parser, the rule set (Duplicate, Missing,        *)
(* Security, Convention) and the lint orchestrator.                        *)
(*                                                                         *)
(* A Go string is modelled as a tuple of one-character strings, so that    *)
(* trimming, splitting, case folding and pattern matching are computed     *)
(* character by character as the library routines compute them.            *)
(***************************************************************************)
EXTENDS Integers, Sequences, FiniteSets, TLC

(***************************************************************************)
(* Text helpers (package strings, and the character classes of the         *)
(* regular expressions).                                                   *)
(***************************************************************************)
UpperSeq == <<"A","B","C","D","E","F","G","H","I","J","K","L","M","N","O","P","Q","R","S","T","U","V","W","X","Y","Z">>

LowerSeq == <<"a","b","c","d","e","f","g","h","i","j","k","l","m","n","o","p","q","r","s","t","u","v","w","x","y","z">>

DigitSeq == <<"0","1","2","3","4","5","6","7","8","9">>

Range(s) == {s[i] : i \in 1..Len(s)}

Upper == Range(UpperSeq)

Lower == Range(LowerSeq)

Digit == Range(DigitSeq)

PosIn(c, s) == CHOOSE i \in 1..Len(s) : s[i] = c

ToLowerChar(c) == IF c \in Upper THEN LowerSeq[PosIn(c, UpperSeq)] ELSE c

ToUpperChar(c) == IF c \in Lower THEN UpperSeq[PosIn(c, LowerSeq)] ELSE c

ToLower(s) == [i \in 1..Len(s) |-> ToLowerChar(s[i])]

ToUpper(s) == [i \in 1..Len(s) |-> ToUpperChar(s[i])]

IsSpace(c) == c \in {" ", "\t", "\r", "\n"}

RECURSIVE TrimLeft(_)
TrimLeft(s) == IF s # <<>> /\ IsSpace(Head(s)) THEN TrimLeft(Tail(s)) ELSE s

RECURSIVE TrimRight(_)
TrimRight(s) ==
    IF s # <<>> /\ IsSpace(s[Len(s)]) THEN TrimRight(SubSeq(s, 1, Len(s) - 1)) ELSE s

TrimSpace(s) == TrimRight(TrimLeft(s))

HasPrefix(s, p) == Len(s) >= Len(p) /\ SubSeq(s, 1, Len(p)) = p

HasSuffix(s, p) == Len(s) >= Len(p) /\ SubSeq(s, Len(s) - Len(p) + 1, Len(s)) = p

\* strings.Index, 1-based; 0 when sub does not occur in s
Index(s, sub) ==
    LET hits == {i \in 1..(Len(s) - Len(sub) + 1) : SubSeq(s, i, i + Len(sub) - 1) = sub}
    IN  IF hits = {} THEN 0 ELSE CHOOSE i \in hits : \A j \in hits : i <= j

Contains(s, sub) == Index(s, sub) # 0

\* strings.SplitN(s, sep, 2): at most two parts, cut at the first sep
SplitN2(s, sep) ==
    LET i == Index(s, sep)
    IN  IF i = 0 THEN <<s>>
        ELSE <<SubSeq(s, 1, i - 1), SubSeq(s, i + Len(sep), Len(s))>>

(***************************************************************************)
(* domain/env.Var and domain/issues.Issue                                  *)
(***************************************************************************)
\* A recommendation is a tuple of text pieces: a fixed message is one piece, a
\* computed part (a key, a suggested name) is spelled character by character.
Msg(text) == <<text>>

Var(key, value, line) == [Key |-> key, Value |-> value, Line |-> line]

NewIssue(name, key, file, fl, ll, r) ==
    [Name |-> name, Key |-> key, File |-> file,
     FirstLine |-> fl, Line |-> ll, Recommendations |-> r]

(***************************************************************************)
(* The line parser, EnhancedParser.ParseWithIssues.                        *)
(*                                                                         *)
(* A file is [status, lines].  status "noopen": os.Open fails.  status     *)
(* "readerr": the read fails after the listed lines were delivered.  A     *)
(* line is [text, pad]: its text followed by pad more bytes of the same    *)
(* value, so its length is Len(text) + pad.  bufio.Scanner stops with      *)
(* ErrTooLong at a line that does not fit its buffer of MaxScanTokenSize   *)
(* bytes.                                                                  *)
(***************************************************************************)
MaxScanTokenSize == 65536

Line(text) == [text |-> text, pad |-> 0]

LongLine(text) == [text |-> text, pad |-> MaxScanTokenSize]

LineLen(l) == Len(l.text) + l.pad

TooLong(l) == LineLen(l) >= MaxScanTokenSize

NoError == "nil"

\* scanner.Scan() after n lines were delivered
ScanNext(file, n) == n < Len(file.lines) /\ ~TooLong(file.lines[n + 1])

\* scanner.Err() once Scan() has returned false after n lines
ScanErr(file, n) ==
    IF n < Len(file.lines) THEN "error reading file: bufio.Scanner: token too long"
    ELSE IF file.status = "readerr" THEN "error reading file: read error"
    ELSE NoError

MalformedNoEquals ==
    <<Msg("Each line should be in KEY=VALUE format"), Msg("Use # for comments"),
      Msg("Check for missing equals sign")>>

MalformedSplit ==
    <<Msg("Each line should be in KEY=VALUE format"),
      Msg("Check for multiple equals signs without proper quoting")>>

EmptyKeyRecs ==
    <<Msg("Variable names cannot be empty"), Msg("Use descriptive variable names")>>

InvalidKeyRecs ==
    <<Msg("Variable names should not contain spaces or tabs"),
      Msg("Use underscores instead of spaces"), Msg("Follow UPPER_SNAKE_CASE convention")>>

EmptyValueRecs ==
    <<Msg("Consider if this variable should have a default value"),
      Msg("Use quotes for intentionally empty strings: KEY=\"\""),
      Msg("Document why this value is empty")>>

\* the increment of lineNum left out
LineNumKept(lineNum) == lineNum

\* the line number the scanner loop gives the next line
NextLineNum(lineNum) == lineNum + 1

\* SkippedLine with a fault seeded: blank and comment lines are not counted
SkippedLineUncounted(st) == st

\* the loop body on a blank or comment line: the line is counted, nothing else
SkippedLine(st) == [st EXCEPT !.lineNum = NextLineNum(st.lineNum)]

\* One iteration of the scanner loop: st = [lineNum, vars, issueList].
ProcessLine(st, line, filename) ==
    LET lineNum == NextLineNum(st.lineNum)
        trimmedLine == TrimSpace(line)
        parts == SplitN2(trimmedLine, <<"=">>)
        key == TrimSpace(parts[1])
        value == TrimSpace(parts[2])
        keyIssue ==
            IF Contains(key, <<" ">>) \/ Contains(key, <<"\t">>)
            THEN <<NewIssue("invalid key format", key, filename, lineNum, lineNum,
                            InvalidKeyRecs)>>
            ELSE <<>>
        valueIssue ==
            IF value = <<>>
            THEN <<NewIssue("empty value", key, filename, lineNum, lineNum,
                            EmptyValueRecs)>>
            ELSE <<>>
        report(i) == [st EXCEPT !.lineNum = lineNum,
                                !.issueList = Append(st.issueList, i)]
    IN  IF trimmedLine = <<>> \/ HasPrefix(trimmedLine, <<"#">>) THEN SkippedLine(st)
        ELSE IF ~Contains(trimmedLine, <<"=">>)
        THEN report(NewIssue("malformed line", trimmedLine, filename, lineNum, lineNum,
                             MalformedNoEquals))
        ELSE IF Len(parts) # 2
        THEN report(NewIssue("malformed line", trimmedLine, filename, lineNum, lineNum,
                             MalformedSplit))
        ELSE IF key = <<>>
        THEN report(NewIssue("empty key", line, filename, lineNum, lineNum, EmptyKeyRecs))
        ELSE [lineNum |-> lineNum,
              vars |-> Append(st.vars, Var(key, value, lineNum)),
              issueList |-> st.issueList \o keyIssue \o valueIssue]

ParseStart == [lineNum |-> 0, vars |-> <<>>, issueList |-> <<>>]

EmptyResult == [IssueList |-> <<>>, Vars |-> <<>>]

\* the scanner loop, from the state st reached after n lines were delivered
RECURSIVE ScanLoop(_, _, _, _)
ScanLoop(st, n, file, filename) ==
    IF ScanNext(file, n)
    THEN ScanLoop(ProcessLine(st, file.lines[n + 1].text, filename), n + 1, file, filename)
    ELSE [st |-> st, n |-> n]

\* what ParseWithIssues returns once the loop has ended in state st after n lines
ParseReturn(st, n, file) ==
    IF ScanErr(file, n) # NoError
    THEN [result |-> EmptyResult, err |-> ScanErr(file, n)]
    ELSE [result |-> [IssueList |-> st.issueList, Vars |-> st.vars], err |-> NoError]

ParseWithIssues(file, filename) ==
    IF file.status = "noopen"
    THEN [result |-> EmptyResult, err |-> "cannot open .env file"]
    ELSE LET end == ScanLoop(ParseStart, 0, file, filename)
         IN  ParseReturn(end.st, end.n, file)

(***************************************************************************)
(* The legacy line parser, Parser.Parse.                                   *)
(***************************************************************************)
\* One iteration of the loop of parseFile: st = [lineNum, vars].
ParserProcessLine(st, text) ==
    IF TrimSpace(text) = <<>> \/ HasPrefix(TrimSpace(text), <<"#">>)
    THEN [st EXCEPT !.lineNum = st.lineNum + 1]
    ELSE IF Len(SplitN2(TrimSpace(text), <<"=">>)) # 2
    THEN [st EXCEPT !.lineNum = st.lineNum + 1]
    ELSE [lineNum |-> st.lineNum + 1,
          vars |-> Append(st.vars,
                          Var(TrimSpace(SplitN2(TrimSpace(text), <<"=">>)[1]),
                              TrimSpace(SplitN2(TrimSpace(text), <<"=">>)[2]),
                              st.lineNum + 1))]

RECURSIVE ParserScanLoop(_, _, _)
ParserScanLoop(st, n, file) ==
    IF ScanNext(file, n)
    THEN ParserScanLoop(ParserProcessLine(st, file.lines[n + 1].text), n + 1, file)
    ELSE [st |-> st, n |-> n]

ParserReturn(end, file) ==
    IF ScanErr(file, end.n) # NoError
    THEN [vars |-> <<>>, err |-> ScanErr(file, end.n)]
    ELSE [vars |-> end.st.vars, err |-> NoError]

ParserParse(file) ==
    IF file.status = "noopen"
    THEN [vars |-> <<>>, err |-> "cannot open .env file"]
    ELSE ParserReturn(ParserScanLoop([lineNum |-> 0, vars |-> <<>>], 0, file), file)

(***************************************************************************)
(* Rules.  A Go map is ranged over in an unspecified order: a rule that    *)
(* builds its output by ranging over a map has a set of possible outputs.  *)
(***************************************************************************)
\* the orders in which a range over a map with key set S can visit it
Perms(S) ==
    {p \in [1..Cardinality(S) -> S] : \A x \in S : \E i \in 1..Cardinality(S) : p[i] = x}

RECURSIVE Concat(_)
Concat(ss) == IF ss = <<>> THEN <<>> ELSE Head(ss) \o Concat(Tail(ss))

(* Duplicate *)
\* DuplicateEntry with a fault seeded: the range starts at the previous occurrence
DuplicateEntryFromPrevious(seen, v, file) ==
    IF v.Key \in DOMAIN seen
    THEN NewIssue("duplicate variable", v.Key, file,
                  IF seen[v.Key].Line # 0 THEN seen[v.Key].Line ELSE seen[v.Key].FirstLine,
                  v.Line, <<>>)
    ELSE NewIssue("duplicate variable", v.Key, file, v.Line, 0, <<>>)

\* the entry the first loop stores in seen for variable v
DuplicateEntry(seen, v, file) ==
    IF v.Key \in DOMAIN seen
    THEN NewIssue("duplicate variable", v.Key, file, seen[v.Key].FirstLine, v.Line, <<>>)
    ELSE NewIssue("duplicate variable", v.Key, file, v.Line, 0, <<>>)

\* the map seen after the first loop: key -> issue
RECURSIVE DuplicateSeen(_, _)
DuplicateSeen(vars, file) ==
    IF vars = <<>> THEN [k \in {} |-> {}]
    ELSE LET seen == DuplicateSeen(SubSeq(vars, 1, Len(vars) - 1), file)
             v == vars[Len(vars)]
         IN  [k \in DOMAIN seen \cup {v.Key} |->
                 IF k = v.Key THEN DuplicateEntry(seen, v, file) ELSE seen[k]]

\* whether the second loop appends the map entry to the output
DuplicateReported(issue) == issue.Line # 0

\* every output Duplicate can return: the reported entries in any order
DuplicateResults(vars, file) ==
    LET seen == DuplicateSeen(vars, file)
        keys == {k \in DOMAIN seen : DuplicateReported(seen[k])}
    IN  {[i \in 1..Cardinality(keys) |-> seen[p[i]]] : p \in Perms(keys)}

(* Missing *)
MissingRecs ==
    <<Msg("Add the missing variable to your .env file"),
      Msg("Check your configuration for required variables"),
      Msg("Ensure the variable name is spelled correctly"),
      Msg("Consider if this should be optional instead")>>

\* the set existing of the keys the file defines
ExistingKeys(vars) == {vars[i].Key : i \in 1..Len(vars)}

\* MissingEntry with a fault seeded: the test of presence is inverted
MissingEntryInverted(required, existing, file) ==
    IF required \in existing
    THEN <<NewIssue("missing required variable", required, file, 0, 0, MissingRecs)>>
    ELSE <<>>

\* what the loop over requiredVars appends for one entry
MissingEntry(required, existing, file) ==
    IF required \notin existing
    THEN <<NewIssue("missing required variable", required, file, 0, 0, MissingRecs)>>
    ELSE <<>>

Missing(requiredVars, vars, file) ==
    Concat([i \in 1..Len(requiredVars) |->
               MissingEntry(requiredVars[i], ExistingKeys(vars), file)])

(* Security *)
AllIn(s, class) == \A i \in 1..Len(s) : s[i] \in class

SecretKeyPatterns ==
    << {<<"p","a","s","s","w","o","r","d">>, <<"p","w","d">>, <<"p","a","s","s">>},
       {<<"s","e","c","r","e","t">>, <<"k","e","y">>, <<"t","o","k","e","n">>},
       {<<"p","r","i","v","a","t","e","_","k","e","y">>, <<"p","r","i","v","_","k","e","y">>},
       {<<"a","p","i","_","k","e","y">>, <<"a","p","i","_","s","e","c","r","e","t">>, <<"a","p","i","_","t","o","k","e","n">>},
       {<<"a","u","t","h","_","k","e","y">>, <<"a","u","t","h","_","s","e","c","r","e","t">>, <<"a","u","t","h","_","t","o","k","e","n">>,
        <<"o","a","u","t","h","_","k","e","y">>, <<"o","a","u","t","h","_","s","e","c","r","e","t">>, <<"o","a","u","t","h","_","t","o","k","e","n">>},
       {<<"a","c","c","e","s","s","_","t","o","k","e","n">>, <<"r","e","f","r","e","s","h","_","t","o","k","e","n">>},
       {<<"j","w","t","_","s","e","c","r","e","t">>, <<"j","w","t","_","k","e","y">>},
       {<<"d","b","_","p","a","s","s","w","o","r","d">>, <<"d","b","_","p","a","s","s">>, <<"d","b","_","p","w","d">>,
        <<"d","a","t","a","b","a","s","e","_","p","a","s","s","w","o","r","d">>, <<"d","a","t","a","b","a","s","e","_","p","a","s","s">>, <<"d","a","t","a","b","a","s","e","_","p","w","d">>},
       {<<"s","m","t","p","_","p","a","s","s","w","o","r","d">>, <<"s","m","t","p","_","p","a","s","s">>, <<"s","m","t","p","_","p","w","d">>,
        <<"e","m","a","i","l","_","p","a","s","s","w","o","r","d">>, <<"e","m","a","i","l","_","p","a","s","s">>, <<"e","m","a","i","l","_","p","w","d">>},
       {<<"a","w","s","_","s","e","c","r","e","t">>, <<"a","w","s","_","k","e","y">>, <<"g","c","p","_","s","e","c","r","e","t">>, <<"g","c","p","_","k","e","y">>,
        <<"a","z","u","r","e","_","s","e","c","r","e","t">>, <<"a","z","u","r","e","_","k","e","y">>} >>

\* (?i)(a|b|c)$ : some alternative, case-folded, ends the key
MatchKeyPattern(alternatives, key) ==
    \E suffix \in alternatives : HasSuffix(ToLower(key), suffix)

IsSecretKey(key) ==
    \E i \in 1..Len(SecretKeyPatterns) : MatchKeyPattern(SecretKeyPatterns[i], key)

Alnum == Upper \cup Lower \cup Digit

TokenClass == Alnum \cup {"_", "-"}

Base64Class == Alnum \cup {"+", "/"}

HexClass == Digit \cup Range(<<"a","b","c","d","e","f","A","B","C","D","E","F">>)

\* ^[A-Za-z0-9_-]+\.[A-Za-z0-9_-]+\.[A-Za-z0-9_-]+$
MatchJWT(v) ==
    \E i, j \in 1..Len(v) :
        /\ 1 < i /\ i + 1 < j /\ j < Len(v)
        /\ v[i] = "." /\ v[j] = "."
        /\ AllIn(SubSeq(v, 1, i - 1), TokenClass)
        /\ AllIn(SubSeq(v, i + 1, j - 1), TokenClass)
        /\ AllIn(SubSeq(v, j + 1, Len(v)), TokenClass)

\* ^[A-Za-z0-9]{32,}$
MatchLongAlnum(v) == Len(v) >= 32 /\ AllIn(v, Alnum)

\* ^[A-Za-z0-9+/]{20,}={0,2}$
MatchBase64(v) ==
    \E k \in 0..2 :
        /\ Len(v) - k >= 20
        /\ AllIn(SubSeq(v, 1, Len(v) - k), Base64Class)
        /\ AllIn(SubSeq(v, Len(v) - k + 1, Len(v)), {"="})

\* ^[a-fA-F0-9]{16,}$
MatchHex(v) == Len(v) >= 16 /\ AllIn(v, HexClass)

\* ^AKIA[0-9A-Z]{16}$
MatchAWS(v) ==
    Len(v) = 20 /\ HasPrefix(v, <<"A","K","I","A">>) /\ AllIn(SubSeq(v, 5, Len(v)), Digit \cup Upper)

\* ^AIza[0-9A-Za-z_-]{35}$
MatchGoogle(v) ==
    Len(v) = 39 /\ HasPrefix(v, <<"A","I","z","a">>) /\ AllIn(SubSeq(v, 5, Len(v)), TokenClass)

LooksLikeSecret(v) ==
    \/ MatchJWT(v) \/ MatchLongAlnum(v) \/ MatchBase64(v)
    \/ MatchHex(v) \/ MatchAWS(v) \/ MatchGoogle(v)

SafePlaceholders ==
    {<<"c","h","a","n","g","e","m","e">>, <<"p","l","a","c","e","h","o","l","d","e","r">>, <<"y","o","u","r","_","k","e","y","_","h","e","r","e">>, <<"y","o","u","r","_","s","e","c","r","e","t","_","h","e","r","e">>,
     <<"e","x","a","m","p","l","e">>, <<"s","a","m","p","l","e">>, <<"d","u","m","m","y">>, <<"t","e","s","t">>, <<"l","o","c","a","l","h","o","s","t">>, <<"1","2","7",".","0",".","0",".","1">>,
     <<"t","r","u","e">>, <<"f","a","l","s","e">>, <<"d","e","v","e","l","o","p","m","e","n","t">>, <<"p","r","o","d","u","c","t","i","o","n">>, <<"s","t","a","g","i","n","g">>}

\* PlaceholderHit with a fault seeded: only a value equal to the placeholder is exempted
PlaceholderHitExact(lowerValue, placeholder) == lowerValue = placeholder

\* the test of one placeholder against the case-folded value
PlaceholderHit(lowerValue, placeholder) ==
    lowerValue = placeholder \/ Contains(lowerValue, placeholder)

IsSafePlaceholder(value) ==
    \E placeholder \in SafePlaceholders : PlaceholderHit(ToLower(value), placeholder)

SecurityBaseRecs ==
    <<Msg("Consider using a secret management system (e.g., HashiCorp Vault, AWS Secrets Manager)"),
      Msg("Use placeholder values in committed files (e.g., 'your_api_key_here')"),
      Msg("Add this file to .gitignore if it contains real secrets"),
      Msg("Use environment-specific files (.env.local) for sensitive data")>>

SecurityRecs(isSecretKey, looksLikeSecret) ==
    LET named ==
            IF isSecretKey /\ ~looksLikeSecret
            THEN <<Msg("Variable name suggests it may contain sensitive data")>>
                     \o SecurityBaseRecs
            ELSE SecurityBaseRecs
    IN  IF looksLikeSecret
        THEN <<Msg("Value appears to be a secret or API key")>> \o named
        ELSE named

\* the first test of the loop body: empty values are skipped
SecuritySkipsValue(value) == value = <<>>

\* SecurityFires with a fault seeded: both signals are required
SecurityFiresBoth(isSecretKey, looksLikeSecret) == isSecretKey /\ looksLikeSecret

\* the condition under which an issue is reported
SecurityFires(isSecretKey, looksLikeSecret) == isSecretKey \/ looksLikeSecret

\* one iteration of the loop over vars: the issues it appends
SecurityVar(v, file) ==
    IF SecuritySkipsValue(v.Value) THEN <<>>
    ELSE IF IsSafePlaceholder(v.Value) THEN <<>>
    ELSE IF SecurityFires(IsSecretKey(v.Key), LooksLikeSecret(v.Value))
    THEN <<NewIssue("potential secret in plaintext", v.Key, file, v.Line, 0,
                    SecurityRecs(IsSecretKey(v.Key), LooksLikeSecret(v.Value)))>>
    ELSE <<>>

Security(vars, file) == Concat([i \in 1..Len(vars) |-> SecurityVar(vars[i], file)])

(* Convention *)
\* ValidPattern with a fault seeded: the underscore is not accepted
ValidPatternNoUnderscore(key) ==
    key # <<>> /\ key[1] \in Upper /\ AllIn(Tail(key), Upper \cup Digit)

\* ^[A-Z][A-Z0-9_]*$
ValidPattern(key) ==
    key # <<>> /\ key[1] \in Upper /\ AllIn(Tail(key), Upper \cup Digit \cup {"_"})

\* strings.ReplaceAll: the non-overlapping occurrences of old, from the left
RECURSIVE ReplaceAll(_, _, _)
ReplaceAll(s, old, new) ==
    IF s = <<>> THEN <<>>
    ELSE IF HasPrefix(s, old) THEN new \o ReplaceAll(SubSeq(s, Len(old) + 1, Len(s)), old, new)
    ELSE <<Head(s)>> \o ReplaceAll(Tail(s), old, new)

\* re1.ReplaceAllString(s, "${1}_${2}") for ([a-z0-9])([A-Z])
RECURSIVE ReplaceLowerUpper(_)
ReplaceLowerUpper(s) ==
    IF Len(s) < 2 THEN s
    ELSE IF s[1] \in Lower \cup Digit /\ s[2] \in Upper
    THEN <<s[1], "_", s[2]>> \o ReplaceLowerUpper(SubSeq(s, 3, Len(s)))
    ELSE <<s[1]>> \o ReplaceLowerUpper(Tail(s))

\* ReplaceAcronym with a fault seeded: runs of uppercase letters are left alone
ReplaceAcronymSkipped(s) == s

\* re2.ReplaceAllString(s, "${1}_${2}") for ([A-Z])([A-Z][a-z])
RECURSIVE ReplaceAcronym(_)
ReplaceAcronym(s) ==
    IF Len(s) < 3 THEN s
    ELSE IF s[1] \in Upper /\ s[2] \in Upper /\ s[3] \in Lower
    THEN <<s[1], "_", s[2], s[3]>> \o ReplaceAcronym(SubSeq(s, 4, Len(s)))
    ELSE <<s[1]>> \o ReplaceAcronym(Tail(s))

convertCamelToSnake(s) == ToLower(ReplaceAcronym(ReplaceLowerUpper(s)))

\* [a-z][A-Z] occurs in key
HasCamelHump(key) == \E i \in 1..(Len(key) - 1) : key[i] \in Lower /\ key[i + 1] \in Upper

WordChar == Alnum \cup {"_"}

\* \b at the gap before position i of s (i in 1..Len(s)+1)
WordBoundary(s, i) ==
    LET before == i > 1 /\ s[i - 1] \in WordChar
        after == i <= Len(s) /\ s[i] \in WordChar
    IN  before # after

\* \bword\b occurs in s
MatchWholeWord(s, word) ==
    \E i \in 1..(Len(s) - Len(word) + 1) :
        /\ SubSeq(s, i, i + Len(word) - 1) = word
        /\ WordBoundary(s, i)
        /\ WordBoundary(s, i + Len(word))

SystemVars ==
    {<<"P","A","T","H">>, <<"H","O","M","E">>, <<"U","S","E","R">>, <<"S","H","E","L","L">>, <<"P","W","D">>, <<"T","E","R","M">>, <<"L","A","N","G">>, <<"L","C","_","A","L","L">>,
     <<"T","M","P","D","I","R">>, <<"T","M","P">>, <<"T","E","M","P">>, <<"H","O","S","T","N","A","M","E">>, <<"H","O","S","T","T","Y","P","E">>, <<"M","A","C","H","T","Y","P","E">>}

AntiPatterns ==
    ( <<"C","O","N","F","I","G">> :> "Be more specific (e.g., DATABASE_CONFIG, APP_CONFIG)" ) @@
    ( <<"S","E","T","T","I","N","G","S">> :> "Be more specific (e.g., USER_SETTINGS, APP_SETTINGS)" ) @@
    ( <<"D","A","T","A">> :> "Be more specific (e.g., USER_DATA, CACHE_DATA)" ) @@
    ( <<"I","N","F","O">> :> "Be more specific (e.g., USER_INFO, DEBUG_INFO)" ) @@
    ( <<"T","E","M","P">> :> "Use TMPDIR or TMP_PATH instead" ) @@
    ( <<"T","E","S","T">> :> "Be more specific (e.g., TEST_DATABASE_URL)" )

RedundantPrefixes == << <<"E","N","V","_">>, <<"E","N","V","I","R","O","N","M","E","N","T","_">>, <<"V","A","R","_">>, <<"V","A","R","I","A","B","L","E","_">> >>

AbbreviationSuggestions ==
    ( <<"D","B">> :> <<"D","A","T","A","B","A","S","E">> ) @@ ( <<"P","W","D">> :> <<"P","A","S","S","W","O","R","D">> ) @@
    ( <<"U","S","R">> :> <<"U","S","E","R">> ) @@ ( <<"S","V","R">> :> <<"S","E","R","V","E","R">> ) @@
    ( <<"C","F","G">> :> <<"C","O","N","F","I","G">> ) @@ ( <<"S","T","G">> :> <<"S","T","A","G","I","N","G">> ) @@
    ( <<"P","R","D">> :> <<"P","R","O","D","U","C","T","I","O","N">> ) @@ ( <<"D","E","V">> :> <<"D","E","V","E","L","O","P","M","E","N","T">> )

\* the recommendations of the block guarded by !validPattern.MatchString(v.Key)
PatternRecs(key) ==
    LET spaces ==
            IF Contains(key, <<" ">>) \/ Contains(key, <<"\t">>)
            THEN <<Msg("Remove spaces and tabs from variable names"),
                   Msg("Use underscores (_) to separate words")>>
            ELSE <<>>
        lower ==
            IF ToLower(key) = key
            THEN <<Msg("Use UPPERCASE for environment variables"),
                   <<"Try: ">> \o ToUpper(key)>>
            ELSE <<>>
        mixed ==
            IF key # ToUpper(key) /\ key # ToLower(key)
            THEN <<Msg("Use consistent UPPER_SNAKE_CASE"), <<"Try: ">> \o ToUpper(key)>>
            ELSE <<>>
        hyphens ==
            IF Contains(key, <<"-">>)
            THEN <<Msg("Use underscores (_) instead of hyphens (-)"),
                   <<"Try: ">> \o ReplaceAll(ToUpper(key), <<"-">>, <<"_">>)>>
            ELSE <<>>
        camel ==
            IF HasCamelHump(key)
            THEN <<Msg("Convert camelCase to UPPER_SNAKE_CASE"),
                   <<"Try: ">> \o ToUpper(convertCamelToSnake(key))>>
            ELSE <<>>
        digit ==
            IF key # <<>> /\ key[1] \in Digit
            THEN <<Msg("Variable names cannot start with numbers"),
                   <<"Prefix with a descriptive word (e.g., ITEM_">> \o key \o <<")">> >>
            ELSE <<>>
        special ==
            IF ~AllIn(key, WordChar)
            THEN <<Msg("Only use letters, numbers, and underscores"),
                   Msg("Remove or replace special characters")>>
            ELSE <<>>
        specific == spaces \o lower \o mixed \o hyphens \o camel \o digit \o special
    IN  IF specific = <<>>
        THEN <<Msg("Use UPPER_SNAKE_CASE convention (e.g., DATABASE_URL)"),
               Msg("Start with a letter, use only letters, numbers, and underscores")>>
        ELSE specific

\* the first redundant prefix of key, in list order, as a set of at most one index
FirstRedundantPrefix(key) ==
    {i \in 1..Len(RedundantPrefixes) :
        /\ HasPrefix(key, RedundantPrefixes[i])
        /\ \A j \in 1..(i - 1) : ~HasPrefix(key, RedundantPrefixes[j])}

\* the recommendations of the checks made whether or not the pattern matched,
\* up to the range over abbreviationSuggestions
IndependentRecs(key) ==
    LET short ==
            IF Len(key) = 1
            THEN <<Msg("Avoid single-letter variable names"),
                   Msg("Use descriptive names (e.g., PORT instead of P)")>>
            ELSE <<>>
        long ==
            IF Len(key) > 50
            THEN <<Msg("Consider shorter, more concise variable names"),
                   Msg("Break down complex names into logical parts")>>
            ELSE <<>>
        system ==
            IF key \in SystemVars
            THEN <<Msg("Avoid overriding system environment variables"),
                   <<"Consider prefixing with your app name (e.g., MYAPP_">> \o key \o <<")">>,
                   Msg("This could cause unexpected behavior in scripts and tools")>>
            ELSE <<>>
        generic ==
            IF key \in DOMAIN AntiPatterns
            THEN <<Msg("Variable name is too generic"), Msg(AntiPatterns[key])>>
            ELSE <<>>
        prefix ==
            IF FirstRedundantPrefix(key) = {} THEN <<>>
            ELSE LET p == RedundantPrefixes[CHOOSE i \in FirstRedundantPrefix(key) : TRUE]
                     suggestions == SubSeq(key, Len(p) + 1, Len(key))
                 IN  <<<<"Remove redundant prefix '">> \o p \o <<"'">> >>
                         \o (IF suggestions # <<>> THEN << <<"Try: ">> \o suggestions >>
                             ELSE <<>>)
    IN  short \o long \o system \o generic \o prefix

\* the test made on each entry of abbreviationSuggestions
AbbreviationHit(key, abbrev) ==
    /\ Contains(key, abbrev)
    /\ ~Contains(key, AbbreviationSuggestions[abbrev])
    /\ MatchWholeWord(key, abbrev)

AbbreviationHits(key) == {a \in DOMAIN AbbreviationSuggestions : AbbreviationHit(key, a)}

AbbreviationRecs(key, abbrev) ==
    <<Msg("Consider using full words instead of abbreviations"),
      <<"Try: ">> \o ReplaceAll(key, abbrev, AbbreviationSuggestions[abbrev])
          \o <<" (instead of ">> \o abbrev \o <<")">> >>

\* issueFound at the end of the loop body
ConventionIssueFound(key) ==
    \/ ~ValidPattern(key)
    \/ IndependentRecs(key) # <<>>
    \/ AbbreviationHits(key) # {}

\* the issues one iteration of the loop over vars can append: the abbreviation
\* recommendations come in the order the map was ranged over
ConventionVarResults(v, file) ==
    IF ~ConventionIssueFound(v.Key) THEN {<<>>}
    ELSE {<<NewIssue("naming convention violation", v.Key, file, v.Line, v.Line,
              (IF ValidPattern(v.Key) THEN <<>> ELSE PatternRecs(v.Key))
                  \o IndependentRecs(v.Key)
                  \o Concat([i \in 1..Cardinality(AbbreviationHits(v.Key)) |->
                                AbbreviationRecs(v.Key, order[i])]))>> :
            order \in Perms(AbbreviationHits(v.Key))}

RECURSIVE ConventionResults(_, _)
ConventionResults(vars, file) ==
    IF vars = <<>> THEN {<<>>}
    ELSE {front \o last :
            front \in ConventionResults(SubSeq(vars, 1, Len(vars) - 1), file),
            last \in ConventionVarResults(vars[Len(vars)], file)}

(***************************************************************************)
(* float64, as far as the confidence arithmetic needs it.  A value is the  *)
(* integer count of units of 2^-55, held as hi * 2^28 + lo; every float64  *)
(* in [0.125, 8) is such a count, and so is 0.                             *)
(***************************************************************************)
LimbBase == 268435456

Float(hi, lo) == [hi |-> hi, lo |-> lo]

\* carries and borrows between the two parts
Normalized(hi, lo) ==
    IF lo < 0 THEN Float(hi - 1, lo + LimbBase)
    ELSE Float(hi + (lo \div LimbBase), lo % LimbBase)

\* the spacing of float64 values at the magnitude of x, in units of 2^-55:
\* 53 significant bits
Ulp(x) ==
    IF x.hi < 33554432 THEN 1
    ELSE IF x.hi < 67108864 THEN 2
    ELSE IF x.hi < 134217728 THEN 4
    ELSE IF x.hi < 268435456 THEN 8
    ELSE IF x.hi < 536870912 THEN 16
    ELSE 32

\* round to nearest, ties to even: x + num/den with 0 <= num < den, rounded to
\* a multiple of the spacing at its magnitude
RoundNearestEven(x, num, den) ==
    LET u == Ulp(x)
        r == x.lo % u
        down == Float(x.hi, x.lo - r)
        up == Normalized(x.hi, x.lo - r + u)
        twice == 2 * (r * den + num)
        even == ((x.lo - r) \div u) % 2 = 0
    IN  IF twice < u * den THEN down
        ELSE IF twice > u * den THEN up
        ELSE IF even THEN down
        ELSE up

\* x + y
FloatAdd(x, y) == RoundNearestEven(Normalized(x.hi + y.hi, x.lo + y.lo), 0, 1)

\* x - y, for x >= y
FloatSub(x, y) == RoundNearestEven(Normalized(x.hi - y.hi, x.lo - y.lo), 0, 1)

\* x / float64(n), for an integer n in 1..7
FloatDivInt(x, n) ==
    LET rest == (x.hi % n) * LimbBase + x.lo
    IN  RoundNearestEven(Float(x.hi \div n, rest \div n), rest % n, n)

FloatLess(x, y) == x.hi < y.hi \/ (x.hi = y.hi /\ x.lo < y.lo)

FloatGeq(x, y) == ~FloatLess(x, y)

\* the float64 values of the literals 0.0, 0.2, 0.3, 0.5, 0.7, 0.8, 1.0
\* (0x3FC999999999999A, 0x3FD3333333333333, 0x3FE0000000000000,
\*  0x3FE6666666666666, 0x3FE999999999999A, 0x3FF0000000000000)
F00 == Float(0, 0)

F02 == Float(26843545, 161061274)

F03 == Float(40265318, 107374182)

F05 == Float(67108864, 0)

F07 == Float(93952409, 161061272)

F08 == Float(107374182, 107374184)

F10 == Float(134217728, 0)

(***************************************************************************)
(* internal/scan: the confidence heuristic                                 *)
(***************************************************************************)
CommonEnvVars ==
    <<<<"P","O","R","T">>, <<"H","O","S","T">>, <<"D","A","T","A","B","A","S","E","_","U","R","L">>, <<"A","P","I","_","K","E","Y">>, <<"S","E","C","R","E","T","_","K","E","Y">>,
      <<"N","O","D","E","_","E","N","V">>, <<"E","N","V","I","R","O","N","M","E","N","T">>, <<"D","E","B","U","G">>, <<"L","O","G","_","L","E","V","E","L">>, <<"T","I","M","E","O","U","T">>>>

ContextMarkers == {<<"p","r","o","c","e","s","s",".","e","n","v">>, <<"o","s",".","g","e","t","e","n","v">>, <<"o","s",".","e","n","v","i","r","o","n">>, <<"$","e","n","v",":">>, <<"$","{">>}

\* the loop over commonEnvVars with a fault seeded: no break, every word found adds 0.2
AddCommonStacked(confidence, varName) ==
    LET hits == {k \in 1..Len(CommonEnvVars) : Contains(ToUpper(varName), CommonEnvVars[k])}
        AddTimes[n \in 0..Len(CommonEnvVars)] ==
            IF n = 0 THEN confidence ELSE FloatAdd(AddTimes[n - 1], F02)
    IN  AddTimes[Cardinality(hits)]

\* the loop over commonEnvVars: 0.2 is added at the first word found, once
AddCommon(confidence, varName) ==
    IF \E k \in 1..Len(CommonEnvVars) : Contains(ToUpper(varName), CommonEnvVars[k])
    THEN FloatAdd(confidence, F02)
    ELSE confidence

\* confidence += delta when the test holds
AddWhen(test, confidence, delta) ==
    IF test THEN FloatAdd(confidence, delta) ELSE confidence

\* confidence -= delta when the test holds
SubWhen(test, confidence, delta) ==
    IF test THEN FloatSub(confidence, delta) ELSE confidence

\* the cap at 1.0 and the floor at 0.0
Clamped(confidence) ==
    IF FloatLess(F10, confidence) THEN F10
    ELSE IF FloatLess(confidence, F00) THEN F00
    ELSE confidence

\* the tests of calculateConfidence
AllCaps(varName) == ToUpper(varName) = varName /\ Len(varName) > 1

HasUnderscore(varName) == Contains(varName, <<"_">>)

\* the length test turned round
VeryShortInverted(varName) == Len(varName) >= 2

VeryShort(varName) == Len(varName) <= 2

HasContext(line) == \E marker \in ContextMarkers : Contains(ToLower(line), marker)

\* the assignments to confidence, in the order they are made, from the base
\* 0.5 to the value returned
calculateConfidence(varName, line, pattern) ==
    Clamped(
        AddWhen(HasContext(line),
            AddCommon(
                SubWhen(VeryShort(varName),
                    AddWhen(HasUnderscore(varName),
                        AddWhen(AllCaps(varName), F05, F03),
                        F02),
                    F03),
                varName),
            F02))

(***************************************************************************)
(* internal/scan: the patterns.  Each expression of getCommonPatterns is a *)
(* literal prefix, an optional \s+ or opening quote ["'], the capture      *)
(* [A-Z][A-Z0-9_]{minRest,}, an optional closing quote and a literal       *)
(* suffix.                                                                 *)
(***************************************************************************)
Pattern(name, prefix, spaces, quoted, minRest, suffix) ==
    [Name |-> name, prefix |-> prefix, spaces |-> spaces, quoted |-> quoted,
     minRest |-> minRest, suffix |-> suffix]

getCommonPatterns ==
    <<Pattern("Go os.Getenv", <<"o","s",".","G","e","t","e","n","v","(">>, FALSE, TRUE, 0, <<")">>),
      Pattern("Node.js process.env", <<"p","r","o","c","e","s","s",".","e","n","v",".">>, FALSE, FALSE, 0, <<>>),
      Pattern("Python os.environ", <<"o","s",".","e","n","v","i","r","o","n","[">>, FALSE, TRUE, 0, <<"]">>),
      Pattern("Python os.getenv", <<"o","s",".","g","e","t","e","n","v","(">>, FALSE, TRUE, 0, <<")">>),
      Pattern("Shell variable expansion", <<"$","{">>, FALSE, FALSE, 0, <<"}">>),
      Pattern("Shell variable simple", <<"$">>, FALSE, FALSE, 2, <<>>),
      Pattern("Docker ENV", <<"E","N","V">>, TRUE, FALSE, 0, <<>>),
      Pattern("Java System.getenv", <<"S","y","s","t","e","m",".","g","e","t","e","n","v","(">>, FALSE, TRUE, 0, <<")">>),
      Pattern("C# Environment.GetEnvironmentVariable",
              <<"E","n","v","i","r","o","n","m","e","n","t",".","G","e","t","E","n","v","i","r","o","n","m","e","n","t","V","a","r","i","a","b","l","e","(">>, FALSE, TRUE, 0, <<")">>),
      Pattern("Ruby ENV", <<"E","N","V","[">>, FALSE, TRUE, 0, <<"]">>),
      Pattern("PHP getenv", <<"g","e","t","e","n","v","(">>, FALSE, TRUE, 0, <<")">>),
      Pattern("PHP $_ENV", <<"$","_","E","N","V","[">>, FALSE, TRUE, 0, <<"]">>),
      Pattern("YAML environment reference", <<"$","{">>, FALSE, FALSE, 0, <<"}">>),
      Pattern("Generic string literal", <<>>, FALSE, TRUE, 3, <<>>)>>

NameChar == Upper \cup Digit \cup {"_"}

Quote == {"\"", "'"}

\* \s within a line
RegexSpace == {" ", "\t", "\r", "\f"}

\* the end of the longest run of characters of class that starts at b
\* (b - 1 when line[b] is not of the class)
RunEnd(line, b, class) ==
    CHOOSE e \in (b - 1)..Len(line) :
        /\ \A k \in b..e : line[k] \in class
        /\ (e = Len(line) \/ line[e + 1] \notin class)

\* the rest of a match whose capture is line[b..e]: the literal suffix at c
MatchSuffix(line, b, e, c, p) ==
    IF /\ c - 1 + Len(p.suffix) <= Len(line)
       /\ SubSeq(line, c, c - 1 + Len(p.suffix)) = p.suffix
    THEN {[name |-> SubSeq(line, b, e), next |-> c + Len(p.suffix)]}
    ELSE {}

\* the closing quote, if the pattern has one, after the capture line[b..e]
MatchClose(line, b, e, p) ==
    IF ~p.quoted THEN MatchSuffix(line, b, e, e + 1, p)
    ELSE IF e + 1 <= Len(line) /\ line[e + 1] \in Quote
    THEN MatchSuffix(line, b, e, e + 2, p)
    ELSE {}

\* the capture [A-Z][A-Z0-9_]{minRest,} at b: as long as it can be
MatchName(line, b, p) ==
    IF /\ b <= Len(line)
       /\ line[b] \in Upper
       /\ RunEnd(line, b, NameChar) - b >= p.minRest
    THEN MatchClose(line, b, RunEnd(line, b, NameChar), p)
    ELSE {}

\* the opening quote, if the pattern has one, at s
MatchOpen(line, s, p) ==
    IF ~p.quoted THEN MatchName(line, s, p)
    ELSE IF s <= Len(line) /\ line[s] \in Quote THEN MatchName(line, s + 1, p)
    ELSE {}

\* the \s+, if the pattern has one, at a
MatchSpaces(line, a, p) ==
    IF ~p.spaces THEN MatchOpen(line, a, p)
    ELSE IF RunEnd(line, a, RegexSpace) >= a
    THEN MatchOpen(line, RunEnd(line, a, RegexSpace) + 1, p)
    ELSE {}

\* the match of p that starts at position i of line, if there is one: the
\* name captured and the position after the match
MatchAt(line, i, p) ==
    IF /\ i + Len(p.prefix) - 1 <= Len(line)
       /\ SubSeq(line, i, i + Len(p.prefix) - 1) = p.prefix
    THEN MatchSpaces(line, i + Len(p.prefix), p)
    ELSE {}

\* the positions from from on at which p matches
MatchStarts(line, p, from) == {i \in from..Len(line) : MatchAt(line, i, p) # {}}

\* the leftmost match of p from from on
FirstMatch(line, p, from) ==
    CHOOSE m \in MatchAt(line,
                         CHOOSE i \in MatchStarts(line, p, from) :
                             \A j \in MatchStarts(line, p, from) : i <= j,
                         p) : TRUE

\* pattern.Pattern.FindAllStringSubmatch(line, -1): the names captured by the
\* successive non-overlapping matches, leftmost first
RECURSIVE FindAllStringSubmatch(_, _, _)
FindAllStringSubmatch(line, p, from) ==
    IF MatchStarts(line, p, from) = {} THEN <<>>
    ELSE <<FirstMatch(line, p, from).name>>
             \o FindAllStringSubmatch(line, p, FirstMatch(line, p, from).next)

(***************************************************************************)
(* internal/scan: scanFile                                                 *)
(***************************************************************************)
UsageResult(varName, filePath, lineNum, line, patternName, confidence) ==
    [Variable |-> varName, File |-> filePath, Line |-> lineNum,
     Context |-> TrimSpace(line), Pattern |-> patternName, Confidence |-> confidence]

EmptyScanResult == [Variables |-> <<>>, Files |-> <<>>, Errors |-> <<>>]

\* the number of lines scanner.Scan() delivers before it returns false
Delivered(file) ==
    CHOOSE n \in 0..Len(file.lines) :
        /\ \A k \in 1..n : ScanNext(file, k - 1)
        /\ ~ScanNext(file, n)

\* the matches found in the file: <<l, k, j>> is the j-th match of the k-th
\* pattern on line l
FileMatches(file, patterns) ==
    UNION {{<<lk[1], lk[2], j>> :
                j \in 1..Len(FindAllStringSubmatch(file.lines[lk[1]].text, patterns[lk[2]], 1))} :
           lk \in (1..Delivered(file)) \X (1..Len(patterns))}

\* the order the loops of scanFile come to the matches in: line by line,
\* pattern by pattern, match by match
FoundBefore(m1, m2) ==
    \/ m1[1] < m2[1]
    \/ m1[1] = m2[1] /\ m1[2] < m2[2]
    \/ m1[1] = m2[1] /\ m1[2] = m2[2] /\ m1[3] < m2[3]

\* the match that i - 1 of the matches are found before
MatchNumber(i, matches) ==
    CHOOSE m \in matches : Cardinality({o \in matches : FoundBefore(o, m)}) = i - 1

\* the usage record of the j-th match of pattern on the line numbered lineNum
UsageOfMatch(line, lineNum, pattern, j, filePath) ==
    UsageResult(FindAllStringSubmatch(line, pattern, 1)[j], filePath, lineNum, line,
                pattern.Name,
                calculateConfidence(FindAllStringSubmatch(line, pattern, 1)[j], line, pattern))

UsageOf(m, file, filePath, patterns) ==
    UsageOfMatch(file.lines[m[1]].text, m[1], patterns[m[2]], m[3], filePath)

\* the usage records of the file in the order they are appended
FileUsages(file, filePath, patterns) ==
    [i \in 1..Cardinality(FileMatches(file, patterns)) |->
        UsageOf(MatchNumber(i, FileMatches(file, patterns)), file, filePath, patterns)]

\* result.Variables after result.Variables[varName] = append(..., usage) was
\* done for each usage in turn
VariablesOf(usages) ==
    [varName \in {usages[i].Variable : i \in 1..Len(usages)} |->
        SelectSeq(usages, LAMBDA usage : usage.Variable = varName)]

scanFile(file, filePath, patterns) ==
    IF file.status = "noopen"
    THEN [result |-> EmptyScanResult, err |-> "open: permission denied"]
    ELSE [result |->
              [Variables |-> VariablesOf(FileUsages(file, filePath, patterns)),
               Files |-> <<filePath>>,
               Errors |-> IF ScanErr(file, Delivered(file)) # NoError
                          THEN <<ScanErr(file, Delivered(file))>> ELSE <<>>],
          err |-> NoError]

(***************************************************************************)
(* internal/scan: the walk.  The file system is a tree of paths; fault     *)
(* gives each path the failure it meets: "nolstat" (Lstat fails),          *)
(* "noread" (the directory cannot be listed), "noopen" (the file cannot be *)
(* opened), "readerr" (the read fails after the first line), or "ok".      *)
(***************************************************************************)
DefaultExcludePaths ==
    <<<<"n","o","d","e","_","m","o","d","u","l","e","s">>, <<"v","e","n","d","o","r">>, <<"d","i","s","t">>, <<"b","u","i","l","d">>, <<".","g","i","t">>,
      <<"t","a","r","g","e","t">>, <<"b","i","n">>, <<"o","b","j">>, <<".","n","e","x","t">>, <<".","n","u","x","t">>>>

DefaultIncludeExts ==
    <<<<".","g","o">>, <<".","j","s">>, <<".","t","s">>, <<".","j","s","x">>, <<".","t","s","x">>, <<".","p","y">>, <<".","j","a","v","a">>,
      <<".","r","b">>, <<".","p","h","p">>, <<".","c","s">>, <<".","c","p","p">>, <<".","c">>, <<".","r","s">>, <<".","k","t">>,
      <<".","s","c","a","l","a">>, <<".","s","h">>, <<".","b","a","s","h">>, <<".","z","s","h">>, <<".","f","i","s","h">>, <<".","p","s","1">>,
      <<".","y","m","l">>, <<".","y","a","m","l">>, <<".","j","s","o","n">>, <<".","t","o","m","l">>, <<".","i","n","i">>, <<".","c","o","n","f">>,
      <<".","d","o","c","k","e","r","f","i","l","e">>, <<"D","o","c","k","e","r","f","i","l","e">>, <<".","e","n","v">>, <<".","e","n","v",".","e","x","a","m","p","l","e">>>>

\* filepath.Base: the last element of path
Base(path) ==
    LET seps == {i \in 1..Len(path) : path[i] = "/"}
    IN  IF seps = {} THEN path
        ELSE SubSeq(path, (CHOOSE i \in seps : \A j \in seps : j <= i) + 1, Len(path))

\* filepath.Ext: the suffix of the last element from its last dot on
Ext(path) ==
    LET base == Base(path)
        dots == {i \in 1..Len(base) : base[i] = "."}
    IN  IF dots = {} THEN <<>>
        ELSE SubSeq(base, CHOOSE i \in dots : \A j \in dots : j <= i, Len(base))

shouldScanFile(path, includeExts) ==
    \E k \in 1..Len(includeExts) : Base(path) = includeExts[k] \/ Ext(path) = includeExts[k]

\* filepath.Join(path, name)
Join(path, name) == path \o <<"/">> \o name

DirNode(names) == [kind |-> "dir", names |-> names, lines |-> <<>>]

FileNode(lines) == [kind |-> "file", names |-> <<>>, lines |-> lines]

\* the project scanned; the names of a directory are in the order
\* readDirNames sorts them
ScanTree ==
    ( <<"p","r","o","j">> :> DirNode(<<<<"a","p","p",".","j","s">>, <<"l","i","b">>, <<"n","o","d","e","_","m","o","d","u","l","e","s">>, <<"n","o","t","e","s",".","t","x","t">>>>) ) @@
    ( <<"p","r","o","j","/","a","p","p",".","j","s">> :>
        FileNode(<<Line(<<"c","o","n","s","t"," ","p","o","r","t"," ","="," ","p","r","o","c","e","s","s",".","e","n","v",".","P","O","R","T">>), Line(<<"r","u","n","(","p","r","o","c","e","s","s",".","e","n","v",".","A","B",")">>)>>) ) @@
    ( <<"p","r","o","j","/","l","i","b">> :> DirNode(<<<<"d","b",".","p","y">>>>) ) @@
    ( <<"p","r","o","j","/","l","i","b","/","d","b",".","p","y">> :>
        FileNode(<<Line(<<"u","r","l"," ","="," ","o","s",".","e","n","v","i","r","o","n","[","'","D","B","_","U","R","L","'","]">>), Line(<<"k","e","y"," ","="," ","o","s",".","g","e","t","e","n","v","(","\"","A","B","\"",")">>)>>) ) @@
    ( <<"p","r","o","j","/","n","o","d","e","_","m","o","d","u","l","e","s">> :> DirNode(<<<<"x",".","j","s">>>>) ) @@
    ( <<"p","r","o","j","/","n","o","d","e","_","m","o","d","u","l","e","s","/","x",".","j","s">> :> FileNode(<<Line(<<"p","r","o","c","e","s","s",".","e","n","v",".","N","O","D","E","_","E","N","V">>)>>) ) @@
    ( <<"p","r","o","j","/","n","o","t","e","s",".","t","x","t">> :> FileNode(<<Line(<<"s","e","t"," ","$","{","N","O","T","E","}">>)>>) )

\* os.Lstat(path)
Lstat(fault, path) ==
    IF path \notin DOMAIN ScanTree THEN "lstat: no such file or directory"
    ELSE IF fault[path] = "nolstat" THEN "lstat: permission denied"
    ELSE NoError

\* readDirNames(path)
ReadDirNamesErr(fault, path) ==
    IF fault[path] = "noread" THEN "open: permission denied" ELSE NoError

\* what os.Open and the reads give for the file at path
OpenedFile(fault, path) ==
    CASE fault[path] = "noopen" -> [status |-> "noopen", lines |-> <<>>]
      [] fault[path] = "readerr" ->
            [status |-> "readerr", lines |-> SubSeq(ScanTree[path].lines, 1, 1)]
      [] OTHER -> [status |-> "ok", lines |-> ScanTree[path].lines]

ScanError(op, path, cause) == [op |-> op, path |-> path, cause |-> cause]

\* the branch of the walk function taken with a fault seeded: the error is
\* returned to filepath.Walk
OnAccessErrorReturned(result, path, err) ==
    [result |-> [result EXCEPT !.Errors = Append(@, ScanError("accessing", path, err))],
     ret |-> err]

\* the branch of the walk function taken when Walk hands it an error
OnAccessError(result, path, err) ==
    [result |-> [result EXCEPT !.Errors = Append(@, ScanError("accessing", path, err))],
     ret |-> "nil"]

\* for varName, usages := range fileResult.Variables { ... append ... }
MergeVariables(into, from) ==
    [varName \in DOMAIN into \cup DOMAIN from |->
        (IF varName \in DOMAIN into THEN into[varName] ELSE <<>>)
            \o (IF varName \in DOMAIN from THEN from[varName] ELSE <<>>)]

\* the end of the walk function, once scanFile has returned fileResult
OnFileScanned(result, path, fileResult) ==
    IF fileResult.err # NoError
    THEN [result |->
              [result EXCEPT !.Errors = Append(@, ScanError("scanning", path, fileResult.err))],
          ret |-> "nil"]
    ELSE [result |->
              [Variables |-> MergeVariables(result.Variables, fileResult.result.Variables),
               Files |-> Append(result.Files, path),
               Errors |-> result.Errors],
          ret |-> "nil"]

\* the function ScanProject hands to filepath.Walk: the result it leaves and
\* the value it returns
WalkFunc(result, path, isDir, err, excludePaths, fault) ==
    IF err # NoError THEN OnAccessError(result, path, err)
    ELSE IF isDir
    THEN [result |-> result,
          ret |-> IF \E k \in 1..Len(excludePaths) : Contains(path, excludePaths[k])
                  THEN "SkipDir" ELSE "nil"]
    ELSE IF ~shouldScanFile(path, DefaultIncludeExts)
    THEN [result |-> result, ret |-> "nil"]
    ELSE OnFileScanned(result, path,
                       scanFile(OpenedFile(fault, path), path, getCommonPatterns))

\* what Walk does at path: Lstat, the listing of a directory, the walk function
WalkVisit(result, path, lstatErr, isDir, excludePaths, fault) ==
    WalkFunc(result, path, isDir,
             IF lstatErr # NoError THEN lstatErr
             ELSE IF isDir THEN ReadDirNamesErr(fault, path)
             ELSE NoError,
             excludePaths, fault)

\* the entries of path Walk goes on to, when the walk function returned ret
WalkEntries(path, isDir, fault, ret) ==
    IF isDir /\ ReadDirNamesErr(fault, path) = NoError /\ ret = "nil"
    THEN [k \in 1..Len(ScanTree[path].names) |-> Join(path, ScanTree[path].names[k])]
    ELSE <<>>

IsDir(fault, path) == Lstat(fault, path) = NoError /\ ScanTree[path].kind = "dir"

(***************************************************************************)
(* Bounds and input sets                                                   *)
(***************************************************************************)
MaxLines == 3

MaxFiles == 2

MaxRules == 2

MaxVars == 3

MaxLine == 3

MaxList == 2

MaxRequired == 2

MaxName == 4

MaxFaults == 2

MaxUsages == 3

\* the sequences over S of length at most n
RECURSIVE SeqsUpTo(_, _)
SeqsUpTo(S, n) ==
    IF n = 0 THEN {<<>>}
    ELSE LET shorter == SeqsUpTo(S, n - 1)
         IN  shorter \cup {Append(s, x) : s \in {t \in shorter : Len(t) = n - 1}, x \in S}

\* the physical lines the parsed files are made of
LineCatalog ==
    {Line(<<"P","O","R","T","=","8","0","8","0">>), Line(<<>>), Line(<<"#"," ","c">>), Line(<<"N","O"," ","E","Q","U","A","L","S">>),
     Line(<<"=","v">>), Line(<<"A"," ","B","=","1">>), Line(<<"E","M","P","T","Y","_","V","A","R","=">>), Line(<<" ","K"," ","="," ","a","=","b"," ">>),
     LongLine(<<"B","I","G","=","1">>)}

ParseInputs ==
    {[status |-> "noopen", lines |-> <<>>]}
        \cup [status : {"ok", "readerr"}, lines : SeqsUpTo(LineCatalog, MaxLines)]

EndToEndLines ==
    <<Line(<<"P","O","R","T","=","8","0","8","0">>), Line(<<>>), Line(<<"P","O","R","T","=","3","0","0","0">>),
      Line(<<"M","A","L","F","O","R","M","E","D"," ","L","I","N","E"," ","W","I","T","H","O","U","T"," ","E","Q","U","A","L","S">>), Line(<<"E","M","P","T","Y","_","V","A","R","=">>)>>

\* the files the lint runs find on disk
Disk ==
    [name \in {"e2e.env", "dup.env", "gone.env", "cut.env", "big.env"} |->
        CASE name = "e2e.env" -> [status |-> "ok", lines |-> EndToEndLines]
          [] name = "dup.env" ->
                [status |-> "ok",
                 lines |-> <<Line(<<"D","B","_","P","A","S","S","W","O","R","D","=","h","u","n","t","e","r","2">>), Line(<<"D","B","_","P","A","S","S","W","O","R","D","=">>)>>]
          [] name = "gone.env" -> [status |-> "noopen", lines |-> <<>>]
          [] name = "cut.env" -> [status |-> "readerr", lines |-> <<Line(<<"A","=","1">>)>>]
          [] name = "big.env" ->
                [status |-> "ok", lines |-> <<Line(<<"A","=","1">>), LongLine(<<"C","E","R","T","=","M","I","I","C">>)>>]]

RuleNames == {"Duplicate", "Missing", "Security", "Convention"}

\* cfg.RequiredVars of the lint runs
ConfiguredRequired == << <<"D","A","T","A","B","A","S","E","_","U","R","L">>, <<"P","O","R","T">> >>

\* the outputs rule can return on (vars, file)
RuleResults(rule, vars, file) ==
    CASE rule = "Duplicate" -> DuplicateResults(vars, file)
      [] rule = "Missing" -> {Missing(ConfiguredRequired, vars, file)}
      [] rule = "Security" -> {Security(vars, file)}
      [] rule = "Convention" -> ConventionResults(vars, file)

(***************************************************************************)
(* internal/scan: GetRequiredVariables                                     *)
(***************************************************************************)
\* totalConfidence after the first k usages were added to 0.0 in turn
RECURSIVE TotalConfidence(_, _)
TotalConfidence(usages, k) ==
    IF k = 0 THEN F00
    ELSE FloatAdd(TotalConfidence(usages, k - 1), usages[k].Confidence)

AvgConfidence(usages) == FloatDivInt(TotalConfidence(usages, Len(usages)), Len(usages))

\* one turn of the loop: is varName appended to required
IsRequired(usages, minConfidence, minUsages) ==
    /\ Len(usages) >= minUsages
    /\ FloatGeq(AvgConfidence(usages), minConfidence)

\* the slices the call can return: the names appended, in the order the range
\* over the map visited them
GetRequiredVariables(sr, minConfidence, minUsages) ==
    Perms({varName \in DOMAIN sr.Variables :
               IsRequired(sr.Variables[varName], minConfidence, minUsages)})

\* the receiver with its usages dropped
ReceiverDrained(sr) == [sr EXCEPT !.Variables = <<>>]

\* the receiver after the call: it is read, never assigned
ReceiverAfter(sr) == sr

(***************************************************************************)
(* State                                                                   *)
(***************************************************************************)
VARIABLES
    rules,               \* Linter.rules
    includeParseIssues,  \* Linter.includeParseIssues
    lintPc,              \* "idle", "file", "rules", "done": position in Lint
    files,               \* the argument of Lint
    fileIdx,             \* index of the file the loop is at
    ruleIdx,             \* index of the rule the inner loop is at
    result,              \* the parse result of the current file
    allIssues,           \* allIssues of Lint
    lintRet,             \* what Lint returned: [issues, err]
    parseFile,           \* the file ParseWithIssues reads
    parsePc,             \* "open", "scan", "done": position in ParseWithIssues
    scanned,             \* lines the scanner has delivered
    parseSt,             \* [lineNum, vars, issueList] of ParseWithIssues
    parseRet,            \* what ParseWithIssues returned: [result, err]
    ruleVars,            \* the variable list a rule is evaluated on
    requiredVars,        \* the list Missing was built with
    ruleName,            \* the rule evaluated last, "none" before
    ruleOut,             \* what it returned
    snake,               \* a call of convertCamelToSnake: [s, result, returned]
    excludePaths,        \* ProjectScanner.excludePaths
    scanPc,              \* "idle", "walk", "done": position in ScanProject
    rootPath,            \* the argument of ScanProject
    fault,               \* the failure each path of the tree meets
    pending,             \* the paths filepath.Walk has still to visit, next first
    scanResult,          \* result of ScanProject
    walkErr,             \* what filepath.Walk returns
    scanRet,             \* what ScanProject returned: [result, err]
    readFailed,          \* the files scanFile was called on and could not open or read to the end
    conf,                \* a call of calculateConfidence
    agg,                 \* a Scan Result and the calls of GetRequiredVariables on it
    cfg,                 \* the configuration runLint loaded
    singleRet,           \* what LintSingle returned: [result, err]
    legacyRet,           \* what the legacy Parser.Parse returned: [vars, err]
    fileScan             \* a call of scanFile and of GetRequiredVariables on its result

lintVars ==
    <<rules, includeParseIssues, lintPc, files, fileIdx, ruleIdx, result, allIssues, lintRet>>

parseVars == <<parseFile, parsePc, scanned, parseSt, parseRet>>

ruleRunVars == <<ruleVars, requiredVars, ruleName, ruleOut>>

scanVars ==
    <<excludePaths, scanPc, rootPath, fault, pending, scanResult, walkErr, scanRet,
      readFailed>>

scannerVars == <<scanVars, conf, agg>>

callVars == <<cfg, singleRet, legacyRet, fileScan>>

vars == <<lintVars, parseVars, ruleRunVars, snake, scannerVars, callVars>>

NoReturn == [issues |-> <<>>, err |-> "pending"]

LintIdle ==
    /\ rules = <<>>
    /\ includeParseIssues = TRUE
    /\ lintPc = "idle"
    /\ files = <<>>
    /\ fileIdx = 0
    /\ ruleIdx = 0
    /\ result = EmptyResult
    /\ allIssues = <<>>
    /\ lintRet = NoReturn

ParseIdle(file) ==
    /\ parseFile = file
    /\ parsePc = "open"
    /\ scanned = 0
    /\ parseSt = ParseStart
    /\ parseRet = [result |-> EmptyResult, err |-> "pending"]

RulesIdle(vs, required) ==
    /\ ruleVars = vs
    /\ requiredVars = required
    /\ ruleName = "none"
    /\ ruleOut = <<>>

SnakeIdle(s) == snake = [s |-> s, result |-> <<>>, returned |-> FALSE]

NoFault == [path \in DOMAIN ScanTree |-> "ok"]

ScanIdle(flt) ==
    /\ excludePaths = DefaultExcludePaths
    /\ scanPc = "idle"
    /\ rootPath = <<>>
    /\ fault = flt
    /\ pending = <<>>
    /\ scanResult = EmptyScanResult
    /\ walkErr = NoError
    /\ scanRet = [result |-> EmptyScanResult, err |-> "pending"]
    /\ readFailed = {}

\* keyed: the same call made for the name with _KEY appended
ConfIdle(varName, line, pattern) ==
    conf = [varName |-> varName, line |-> line, pattern |-> pattern,
            confidence |-> F00, returned |-> FALSE,
            keyed |-> F00, keyedReturned |-> FALSE]

AggIdle(variables, minConfidence, minUsages) ==
    agg = [sr |-> [Variables |-> variables, Files |-> <<>>, Errors |-> <<>>],
           minConfidence |-> minConfidence, minUsages |-> minUsages, calls |-> <<>>]

\* config.Load with no configuration file found
DefaultConfig ==
    [RequiredVars |-> <<>>,
     Rules |-> [Duplicate |-> TRUE, Missing |-> TRUE, Security |-> FALSE,
                Convention |-> FALSE, Syntax |-> TRUE, EmptyValues |-> TRUE]]

CfgIdle(c) == cfg = c

\* Result{}
ZeroResult ==
    [File |-> "", Vars |-> <<>>, ParseIssues |-> <<>>, RuleIssues |-> <<>>, TotalIssues |-> 0]

SingleIdle == singleRet = [file |-> "", result |-> ZeroResult, err |-> "pending"]

LegacyIdle == legacyRet = [vars |-> <<>>, err |-> "pending"]

\* required: what GetRequiredVariables(minConfidence, minUsages) returned on the result
FileScanIdle(file) ==
    fileScan = [file |-> file, result |-> EmptyScanResult, returned |-> FALSE,
                minConfidence |-> F00, minUsages |-> 0, required |-> <<>>,
                aggregated |-> FALSE]

CallsIdle ==
    /\ CfgIdle(DefaultConfig)
    /\ SingleIdle
    /\ LegacyIdle
    /\ FileScanIdle([status |-> "noopen", lines |-> <<>>])

ScannerIdle ==
    /\ ScanIdle(NoFault)
    /\ ConfIdle(<<>>, <<>>, 1)
    /\ AggIdle(<<>>, F00, 0)

(***************************************************************************)
(* Linter: New, WithRule, WithParseIssues, Lint                            *)
(***************************************************************************)
WithRule(rule) ==
    /\ lintPc = "idle"
    /\ Len(rules) < MaxRules
    /\ rules' = Append(rules, rule)
    /\ UNCHANGED <<includeParseIssues, lintPc, files, fileIdx, ruleIdx, result, allIssues,
                   lintRet, parseVars, ruleRunVars, snake, scannerVars, callVars>>

WithParseIssues(include) ==
    /\ lintPc = "idle"
    /\ includeParseIssues' = include
    /\ UNCHANGED <<rules, lintPc, files, fileIdx, ruleIdx, result, allIssues, lintRet,
                   parseVars, ruleRunVars, snake, scannerVars, callVars>>

\* Lint(fs) is entered
LintCall(fs) ==
    /\ lintPc = "idle"
    /\ files' = fs
    /\ fileIdx' = 1
    /\ allIssues' = <<>>
    /\ lintPc' = "file"
    /\ UNCHANGED <<rules, includeParseIssues, ruleIdx, result, lintRet, parseVars, ruleRunVars, snake, scannerVars, callVars>>

\* what Lint does when the parse of a file fails: return nil, err
LintOnParseError(err) ==
    /\ lintRet' = [issues |-> <<>>, err |-> err]
    /\ lintPc' = "done"
    /\ UNCHANGED <<allIssues, result, ruleIdx, fileIdx>>

\* the head of the loop body: parse the file, keep its parse issues
LintParse ==
    /\ lintPc = "file"
    /\ fileIdx <= Len(files)
    /\ LET r == ParseWithIssues(Disk[files[fileIdx]], files[fileIdx])
       IN  IF r.err # NoError
           THEN LintOnParseError(r.err)
           ELSE /\ result' = r.result
                /\ allIssues' = IF includeParseIssues
                                THEN allIssues \o r.result.IssueList
                                ELSE allIssues
                /\ ruleIdx' = 1
                /\ lintPc' = "rules"
                /\ UNCHANGED <<lintRet, fileIdx>>
    /\ UNCHANGED <<rules, includeParseIssues, files, parseVars, ruleRunVars, snake, scannerVars, callVars>>

\* one iteration of the loop over l.rules
LintRule ==
    /\ lintPc = "rules"
    /\ ruleIdx <= Len(rules)
    /\ \E ruleIssues \in RuleResults(rules[ruleIdx], result.Vars, files[fileIdx]) :
           allIssues' = allIssues \o ruleIssues
    /\ ruleIdx' = ruleIdx + 1
    /\ UNCHANGED <<rules, includeParseIssues, lintPc, files, fileIdx, result, lintRet,
                   parseVars, ruleRunVars, snake, scannerVars, callVars>>

\* the loop over l.rules ends: on to the next file
LintNextFile ==
    /\ lintPc = "rules"
    /\ ruleIdx > Len(rules)
    /\ fileIdx' = fileIdx + 1
    /\ lintPc' = "file"
    /\ UNCHANGED <<rules, includeParseIssues, files, ruleIdx, result, allIssues, lintRet,
                   parseVars, ruleRunVars, snake, scannerVars, callVars>>

\* the loop over files ends: return allIssues, nil
LintReturn ==
    /\ lintPc = "file"
    /\ fileIdx > Len(files)
    /\ lintRet' = [issues |-> allIssues, err |-> NoError]
    /\ lintPc' = "done"
    /\ UNCHANGED <<rules, includeParseIssues, files, fileIdx, ruleIdx, result, allIssues,
                   parseVars, ruleRunVars, snake, scannerVars, callVars>>

\* the lists the loop over l.rules of LintSingle can build with the first k rules
RECURSIVE RuleIssuesAfter(_, _, _, _)
RuleIssuesAfter(rs, k, vs, file) ==
    IF k = 0 THEN {<<>>}
    ELSE {ruleIssues \o out : ruleIssues \in RuleIssuesAfter(rs, k - 1, vs, file),
                              out \in RuleResults(rs[k], vs, file)}

SingleResult(file, parsed, ruleIssues) ==
    [File |-> file, Vars |-> parsed.Vars, ParseIssues |-> parsed.IssueList,
     RuleIssues |-> ruleIssues,
     TotalIssues |-> Len(parsed.IssueList) + Len(ruleIssues)]

\* what LintSingle(file) can return with the rules rs registered
LintSingleReturns(rs, file, r) ==
    IF r.err # NoError
    THEN {[file |-> file, result |-> ZeroResult, err |-> r.err]}
    ELSE {[file |-> file, result |-> SingleResult(file, r.result, ruleIssues),
           err |-> NoError] :
              ruleIssues \in RuleIssuesAfter(rs, Len(rs), r.result.Vars, file)}

AllIssues(lr) == lr.ParseIssues \o lr.RuleIssues

\* LintSingle called on the linter once Lint has returned
LintSingle(file) ==
    /\ lintPc = "done"
    /\ singleRet.err = "pending"
    /\ singleRet' \in LintSingleReturns(rules, file, ParseWithIssues(Disk[file], file))
    /\ UNCHANGED <<lintVars, parseVars, ruleRunVars, snake, scannerVars, cfg, legacyRet,
                   fileScan>>

Init ==
    /\ LintIdle
    /\ ParseIdle([status |-> "noopen", lines |-> <<>>])
    /\ RulesIdle(<<>>, <<>>)
    /\ SnakeIdle(<<>>)
    /\ ScannerIdle
    /\ CallsIdle

Next ==
    \/ \E rule \in RuleNames : WithRule(rule)
    \/ \E include \in BOOLEAN : WithParseIssues(include)
    \/ \E fs \in SeqsUpTo(DOMAIN Disk, MaxFiles) : LintCall(fs)
    \/ LintParse
    \/ LintRule
    \/ LintNextFile
    \/ LintReturn
    \/ \E file \in DOMAIN Disk : LintSingle(file)

Spec == Init /\ [][Next]_vars

(***************************************************************************)
(* cmd: runLint builds the linter from the configuration and runs Lint     *)
(***************************************************************************)
\* the rules runLint registers, in the order of its tests
RulesOfConfig(c) ==
    (IF c.Rules.Duplicate THEN <<"Duplicate">> ELSE <<>>)
        \o (IF c.Rules.Missing /\ Len(c.RequiredVars) > 0 THEN <<"Missing">> ELSE <<>>)
        \o (IF c.Rules.Security THEN <<"Security">> ELSE <<>>)
        \o (IF c.Rules.Convention THEN <<"Convention">> ELSE <<>>)

\* the configurations loaded: every setting of four flags, and all six set
ConfigChoices ==
    [RequiredVars : {<<>>, ConfiguredRequired},
     Rules : [Duplicate : BOOLEAN, Missing : {TRUE}, Security : {FALSE},
              Convention : BOOLEAN, Syntax : BOOLEAN, EmptyValues : BOOLEAN]
                 \cup {[Duplicate |-> TRUE, Missing |-> TRUE, Security |-> TRUE,
                        Convention |-> TRUE, Syntax |-> TRUE, EmptyValues |-> TRUE]}]

\* lint.New, the WithRule calls and the entry into linter.Lint(fs)
RunLint(fs) ==
    /\ lintPc = "idle"
    /\ rules' = RulesOfConfig(cfg)
    /\ includeParseIssues' = TRUE
    /\ files' = fs
    /\ fileIdx' = 1
    /\ allIssues' = <<>>
    /\ lintPc' = "file"
    /\ UNCHANGED <<ruleIdx, result, lintRet, parseVars, ruleRunVars, snake, scannerVars,
                   callVars>>

InitRunLint ==
    /\ LintIdle
    /\ ParseIdle([status |-> "noopen", lines |-> <<>>])
    /\ RulesIdle(<<>>, <<>>)
    /\ SnakeIdle(<<>>)
    /\ ScannerIdle
    /\ \E c \in ConfigChoices : CfgIdle(c)
    /\ SingleIdle
    /\ LegacyIdle
    /\ FileScanIdle([status |-> "noopen", lines |-> <<>>])

NextRunLint ==
    \/ \E fs \in SeqsUpTo(DOMAIN Disk, MaxFiles) \ {<<>>} : RunLint(fs)
    \/ LintParse
    \/ LintRule
    \/ LintNextFile
    \/ LintReturn

SpecRunLint == InitRunLint /\ [][NextRunLint]_vars

(***************************************************************************)
(* EnhancedParser.ParseWithIssues, line by line                            *)
(***************************************************************************)
ParseFileName == "test.env"

\* os.Open
ParseOpen ==
    /\ parsePc = "open"
    /\ IF parseFile.status = "noopen"
       THEN /\ parseRet' = ParseWithIssues(parseFile, ParseFileName)
            /\ parsePc' = "done"
       ELSE /\ parsePc' = "scan"
            /\ UNCHANGED parseRet
    /\ UNCHANGED <<parseFile, scanned, parseSt, lintVars, ruleRunVars, snake, scannerVars, callVars>>

\* scanner.Scan() returns true: the loop body runs on the line delivered
ParseScan ==
    /\ parsePc = "scan"
    /\ ScanNext(parseFile, scanned)
    /\ parseSt' = ProcessLine(parseSt, parseFile.lines[scanned + 1].text, ParseFileName)
    /\ scanned' = scanned + 1
    /\ UNCHANGED <<parseFile, parsePc, parseRet, lintVars, ruleRunVars, snake, scannerVars, callVars>>

\* scanner.Scan() returns false: scanner.Err() decides what is returned
ParseFinish ==
    /\ parsePc = "scan"
    /\ ~ScanNext(parseFile, scanned)
    /\ parseRet' = ParseReturn(parseSt, scanned, parseFile)
    /\ parsePc' = "done"
    /\ UNCHANGED <<parseFile, scanned, parseSt, lintVars, ruleRunVars, snake, scannerVars, callVars>>

\* Parser.Parse called on the same file
LegacyParse ==
    /\ legacyRet.err = "pending"
    /\ legacyRet' = ParserParse(parseFile)
    /\ UNCHANGED <<parseVars, lintVars, ruleRunVars, snake, scannerVars, cfg, singleRet,
                   fileScan>>

InitParse ==
    /\ LintIdle
    /\ \E file \in ParseInputs : ParseIdle(file)
    /\ RulesIdle(<<>>, <<>>)
    /\ SnakeIdle(<<>>)
    /\ ScannerIdle
    /\ CallsIdle

NextParse == ParseOpen \/ ParseScan \/ ParseFinish \/ LegacyParse

SpecParse == InitParse /\ [][NextParse]_vars

(***************************************************************************)
(* The rules as functions of a variable list                               *)
(***************************************************************************)
RuleFileName == "test.env"

\* variable lists with the given keys and values, at arbitrary lines
VarLists(keys, values, lines, n) ==
    SeqsUpTo([Key : keys, Value : values, Line : lines], n)

\* variable lists whose i-th variable is on line i
Numbered(kvs) ==
    [i \in 1..Len(kvs) |-> Var(kvs[i][1], kvs[i][2], i)]

NumberedLists(keys, values, n) ==
    {Numbered(kvs) : kvs \in SeqsUpTo(keys \X values, n)}

\* the last list has two keys assigned twice each
DuplicateInputs ==
    VarLists({<<"P","O","R","T">>, <<"H","O","S","T">>}, {<<"1">>}, 1..MaxLine, MaxVars)
        \cup {Numbered(<<<<<<"P","O","R","T">>, <<"1">>>>, <<<<"H","O","S","T">>, <<"1">>>>,
                         <<<<"P","O","R","T">>, <<"2">>>>, <<<<"H","O","S","T">>, <<"2">>>>>>)}

MissingNames == {<<"D","A","T","A","B","A","S","E","_","U","R","L">>, <<"A","P","I","_","K","E","Y">>}

MissingInputs == NumberedLists(MissingNames \cup {<<"P","O","R","T">>}, {<<"1">>}, MaxList)

SecurityKeys == {<<"R","E","A","L","_","S","E","C","R","E","T">>, <<"A","P","I","_","S","E","C","R","E","T">>, <<"A","P","P","_","N","A","M","E">>}

SecurityValues ==
    {<<>>, <<"l","o","c","a","l","h","o","s","t">>, <<"s","k","_","l","i","v","e","_","5","1","H","1","2","3","4","5","6","7","8","9","0","a","b","c","d","e","f">>, <<"m","y","t","e","s","t","1","2","3","s","e","c","r","e","t","v","a","l","u","e">>,
     <<"0","1","2","3","4","5","6","7","8","9","a","b","c","d","e","f">>, <<"0","1","2","3","4","5","6","7","8","9","a","b","c","d","e","f","0">>, <<"0","1","2","3","4","5","6","7","8","9","a","b","c","d","e">>,
     <<"T","e","S","t","0","1","2","3","4","5","6","7","8","9","a","b","c","d","e","f","0","1","2","3","4","5","6","7","8","9","a","b","c","d","e","f">>}

SecurityInputs == NumberedLists(SecurityKeys, SecurityValues, MaxList)

ConventionKeys ==
    {<<"D","B","_","U","R","L">>, <<"D","B">>, <<"D","A","T","A","B","A","S","E","_","U","R","L">>, <<"d","a","t","a","b","a","s","e","U","r","l">>, <<"D","B","-","P","W","D">>, <<"P","A","T","H">>,
     <<"A","P","I","_","K","E","Y">>, <<"E","N","V","_","P","O","R","T">>, <<"P","O","R","T">>, <<"L","O","G","_","L","E","V","E","L">>}

ConventionInputs == NumberedLists(ConventionKeys, {<<"v","a","l","u","e">>}, MaxList)

\* the calls made: a variable list and, for Missing, the required names
RuleCalls ==
    [vars : DuplicateInputs \cup SecurityInputs \cup ConventionInputs, required : {<<>>}]
        \cup [vars : MissingInputs, required : SeqsUpTo(MissingNames, MaxRequired)]

RunDuplicate ==
    /\ ruleOut' \in DuplicateResults(ruleVars, RuleFileName)
    /\ ruleName' = "Duplicate"
    /\ UNCHANGED <<ruleVars, requiredVars, lintVars, parseVars, snake, scannerVars, callVars>>

RunMissing ==
    /\ ruleOut' = Missing(requiredVars, ruleVars, RuleFileName)
    /\ ruleName' = "Missing"
    /\ UNCHANGED <<ruleVars, requiredVars, lintVars, parseVars, snake, scannerVars, callVars>>

RunSecurity ==
    /\ ruleOut' = Security(ruleVars, RuleFileName)
    /\ ruleName' = "Security"
    /\ UNCHANGED <<ruleVars, requiredVars, lintVars, parseVars, snake, scannerVars, callVars>>

RunConvention ==
    /\ ruleOut' \in ConventionResults(ruleVars, RuleFileName)
    /\ ruleName' = "Convention"
    /\ UNCHANGED <<ruleVars, requiredVars, lintVars, parseVars, snake, scannerVars, callVars>>

InitRules ==
    /\ LintIdle
    /\ ParseIdle([status |-> "noopen", lines |-> <<>>])
    /\ \E call \in RuleCalls : RulesIdle(call.vars, call.required)
    /\ SnakeIdle(<<>>)
    /\ ScannerIdle
    /\ CallsIdle

NextRules == RunDuplicate \/ RunMissing \/ RunSecurity \/ RunConvention

SpecRules == InitRules /\ [][NextRules]_vars

(***************************************************************************)
(* convertCamelToSnake as a function of its argument                       *)
(***************************************************************************)
\* a lowercase letter, two uppercase letters, a digit, the underscore
SnakeAlphabet == {"a", "B", "C", "1", "_"}

SnakeInputs ==
    SeqsUpTo(SnakeAlphabet, MaxName)
        \cup {<<"H","T","T","P","S","P","r","o","x","y">>, <<"X","M","L","H","t","t","p","R","e","q","u","e","s","t">>, <<"U","R","L","P","a","t","h">>, <<"i","P","h","o","n","e">>, <<"d","a","t","a","b","a","s","e","U","r","l">>}

RunConvertCamelToSnake ==
    /\ ~snake.returned
    /\ snake' = [snake EXCEPT !.result = convertCamelToSnake(snake.s), !.returned = TRUE]
    /\ UNCHANGED <<lintVars, parseVars, ruleRunVars, scannerVars, callVars>>

InitSnake ==
    /\ LintIdle
    /\ ParseIdle([status |-> "noopen", lines |-> <<>>])
    /\ RulesIdle(<<>>, <<>>)
    /\ \E s \in SnakeInputs : SnakeIdle(s)
    /\ ScannerIdle
    /\ CallsIdle

NextSnake == RunConvertCamelToSnake

SpecSnake == InitSnake /\ [][NextSnake]_vars

(***************************************************************************)
(* ProjectScanner: NewProjectScanner, WithExcludePaths, ScanProject        *)
(***************************************************************************)
\* the failures a path can meet: a directory on Lstat or on listing, a file
\* on Lstat, on open or on read
FaultKinds(path) ==
    IF ScanTree[path].kind = "dir" THEN {"nolstat", "noread"}
    ELSE {"nolstat", "noopen", "readerr"}

\* the failures the tree can meet when at most n of its paths fail
RECURSIVE FaultsUpTo(_)
FaultsUpTo(n) ==
    IF n = 0 THEN {[path \in DOMAIN ScanTree |-> "ok"]}
    ELSE LET fewer == FaultsUpTo(n - 1)
         IN  fewer \cup UNION {{[fp[1] EXCEPT ![fp[2]] = kind] : kind \in FaultKinds(fp[2])} :
                                 fp \in fewer \X DOMAIN ScanTree}

Faults == FaultsUpTo(MaxFaults)

\* the lists callers pass to WithExcludePaths
ExcludeChoices == {<<>>, <<<<"l","i","b">>>>}

\* the roots callers pass to ScanProject
RootChoices == {<<"p","r","o","j">>, <<"p","r","o","j","/","n","o","d","e","_","m","o","d","u","l","e","s">>, <<"g","o","n","e">>}

WithExcludePaths(paths) ==
    /\ scanPc = "idle"
    /\ excludePaths' = paths
    /\ UNCHANGED <<scanPc, rootPath, fault, pending, scanResult, walkErr, scanRet, readFailed,
                   conf, agg, lintVars, parseVars, ruleRunVars, snake, callVars>>

\* ScanProject up to the call of filepath.Walk
ScanCall(root) ==
    /\ scanPc = "idle"
    /\ scanPc' = "walk"
    /\ rootPath' = root
    /\ pending' = <<root>>
    /\ scanResult' = EmptyScanResult
    /\ UNCHANGED <<excludePaths, fault, walkErr, scanRet, readFailed,
                   conf, agg, lintVars, parseVars, ruleRunVars, snake, callVars>>

\* scanFile is called on path and cannot open the file or read it to the end
ReadFails(flt, path) ==
    /\ Lstat(flt, path) = NoError
    /\ ScanTree[path].kind = "file"
    /\ shouldScanFile(path, DefaultIncludeExts)
    /\ flt[path] \in {"noopen", "readerr"}

\* what filepath.Walk does with the value out the walk function returned at path
WalkOn(path, out) ==
    /\ scanResult' = out.result
    /\ IF out.ret \in {"nil", "SkipDir"}
       THEN /\ pending' = WalkEntries(path, IsDir(fault, path), fault, out.ret) \o Tail(pending)
            /\ UNCHANGED walkErr
       ELSE /\ pending' = <<>>
            /\ walkErr' = out.ret
    /\ readFailed' = IF ReadFails(fault, path) THEN readFailed \cup {path} ELSE readFailed

\* filepath.Walk comes to its next path: Lstat, the listing of a directory,
\* the call of the walk function, and what Walk does with the value returned
WalkStep ==
    /\ scanPc = "walk"
    /\ pending # <<>>
    /\ WalkOn(Head(pending),
              WalkVisit(scanResult, Head(pending), Lstat(fault, Head(pending)),
                        IsDir(fault, Head(pending)), excludePaths, fault))
    /\ UNCHANGED <<excludePaths, scanPc, rootPath, fault, scanRet,
                   conf, agg, lintVars, parseVars, ruleRunVars, snake, callVars>>

\* return result, err
ScanReturn ==
    /\ scanPc = "walk"
    /\ pending = <<>>
    /\ scanPc' = "done"
    /\ scanRet' = [result |-> scanResult, err |-> walkErr]
    /\ UNCHANGED <<excludePaths, rootPath, fault, pending, scanResult, walkErr, readFailed,
                   conf, agg, lintVars, parseVars, ruleRunVars, snake, callVars>>

InitScan ==
    /\ LintIdle
    /\ ParseIdle([status |-> "noopen", lines |-> <<>>])
    /\ RulesIdle(<<>>, <<>>)
    /\ SnakeIdle(<<>>)
    /\ \E flt \in Faults : ScanIdle(flt)
    /\ ConfIdle(<<>>, <<>>, 1)
    /\ AggIdle(<<>>, F00, 0)
    /\ CallsIdle

NextScan ==
    \/ \E paths \in ExcludeChoices : WithExcludePaths(paths)
    \/ \E root \in RootChoices : ScanCall(root)
    \/ WalkStep
    \/ ScanReturn

SpecScan == InitScan /\ [][NextScan]_vars

(***************************************************************************)
(* calculateConfidence run alone on one candidate name and one line        *)
(***************************************************************************)
\* an uppercase letter, a lowercase letter, the underscore, a digit
ConfAlphabet == {"A", "b", "_", "1"}

HasLetter(s) == \E i \in 1..Len(s) : s[i] \in Upper \cup Lower

ConfNames ==
    {s \in SeqsUpTo(ConfAlphabet, MaxName) : HasLetter(s)}
        \cup {<<"P","O","R","T">>, <<"p","o","r","t">>, <<"p","o","r","t","h","o","s","t">>, <<"H","O","S","T","_","P","O","R","T">>, <<"D","B","_","U","R","L">>, <<"A","P","I">>,
              <<"S","E","C","R","E","T">>, <<"D","e","b","u","g">>, <<"T","I","M","E","O","U","T">>, <<"N","O","D","E","_","E","N","V">>}

ConfLines ==
    {<<>>, <<"e","x","p","o","r","t"," ","X","=","1">>, <<"c","o","n","s","t"," ","p"," ","="," ","p","r","o","c","e","s","s",".","e","n","v",".","X">>, <<"v"," ","="," ","O","S",".","G","e","t","e","n","v","(","\"","X","\"",")">>,
     <<"o","s",".","e","n","v","i","r","o","n","[","'","X","'","]">>, <<"$","E","n","v",":","X">>, <<"e","c","h","o"," ","$","{","X","}">>}

KeySuffix == <<"_","K","E","Y">>

RunCalculateConfidence ==
    /\ ~conf.returned
    /\ conf' = [conf EXCEPT
                    !.confidence = calculateConfidence(conf.varName, conf.line,
                                                       getCommonPatterns[conf.pattern]),
                    !.returned = TRUE]
    /\ UNCHANGED <<lintVars, parseVars, ruleRunVars, snake, scanVars, agg, callVars>>

RunCalculateConfidenceKeyed ==
    /\ ~conf.keyedReturned
    /\ conf' = [conf EXCEPT
                    !.keyed = calculateConfidence(conf.varName \o KeySuffix, conf.line,
                                                  getCommonPatterns[conf.pattern]),
                    !.keyedReturned = TRUE]
    /\ UNCHANGED <<lintVars, parseVars, ruleRunVars, snake, scanVars, agg, callVars>>

InitConfidence ==
    /\ LintIdle
    /\ ParseIdle([status |-> "noopen", lines |-> <<>>])
    /\ RulesIdle(<<>>, <<>>)
    /\ SnakeIdle(<<>>)
    /\ ScanIdle(NoFault)
    /\ \E varName \in ConfNames, line \in ConfLines, pattern \in {1, Len(getCommonPatterns)} :
            ConfIdle(varName, line, pattern)
    /\ AggIdle(<<>>, F00, 0)
    /\ CallsIdle

NextConfidence ==
    \/ RunCalculateConfidence
    \/ RunCalculateConfidenceKeyed

SpecConfidence == InitConfidence /\ [][NextConfidence]_vars

(***************************************************************************)
(* GetRequiredVariables called, up to twice, on one scan result            *)
(***************************************************************************)
AggNames == {<<"A","B">>, <<"A","B","C">>}

AggLines == {<<"r","u","n","(","p","r","o","c","e","s","s",".","e","n","v",".","X",")">>, <<"e","x","p","o","r","t"," ","X","=","1">>}

\* the usages a scan can record for one name: one per reference, each on a
\* line with or without a context marker
UsagesOfLines(varName, lines) ==
    [k \in 1..Len(lines) |->
        UsageResult(varName, <<"a","p","p",".","j","s">>, k, lines[k], getCommonPatterns[2].Name,
                    calculateConfidence(varName, lines[k], getCommonPatterns[2]))]

LineLists == SeqsUpTo(AggLines, MaxUsages) \ {<<>>}

\* the maps from some of the names to a list of usages each
AggInputs ==
    UNION {{[varName \in names |-> UsagesOfLines(varName, lines[varName])] :
                lines \in [names -> LineLists]} : names \in SUBSET AggNames}

\* 0.7 and 1 are the defaults of --min-confidence and --min-usages
MinConfidences == {F05, F07, F08}

MinUsagesChoices == {1, 2}

RunGetRequiredVariables ==
    /\ Len(agg.calls) < 2
    /\ \E required \in GetRequiredVariables(agg.sr, agg.minConfidence, agg.minUsages) :
            agg' = [agg EXCEPT !.sr = ReceiverAfter(agg.sr),
                               !.calls = Append(@, required)]
    /\ UNCHANGED <<lintVars, parseVars, ruleRunVars, snake, scanVars, conf, callVars>>

InitAggregate ==
    /\ LintIdle
    /\ ParseIdle([status |-> "noopen", lines |-> <<>>])
    /\ RulesIdle(<<>>, <<>>)
    /\ SnakeIdle(<<>>)
    /\ ScanIdle(NoFault)
    /\ ConfIdle(<<>>, <<>>, 1)
    /\ \E variables \in AggInputs, minConfidence \in MinConfidences,
          minUsages \in MinUsagesChoices :
            AggIdle(variables, minConfidence, minUsages)
    /\ CallsIdle

NextAggregate == RunGetRequiredVariables

SpecAggregate == InitAggregate /\ [][NextAggregate]_vars

(***************************************************************************)
(* scanFile run alone on a file of references, then GetRequiredVariables   *)
(***************************************************************************)
\* the names the built-in patterns can capture, over an uppercase letter, a
\* digit and the underscore
ScanNames ==
    {s \in SeqsUpTo({"A", "1", "_"}, MaxName) : s # <<>> /\ Head(s) = "A"}

\* one reference to the name in each of the forms the catalog looks for
ReferenceForms(name) ==
    {<<"x"," ",":","="," ","o","s",".","G","e","t","e","n","v","(","\"">> \o name \o <<"\"",")">>,
     <<"r","u","n","(","p","r","o","c","e","s","s",".","e","n","v",".">> \o name \o <<")">>,
     <<"u"," ","="," ","o","s",".","e","n","v","i","r","o","n","[","'">> \o name \o <<"'","]">>,
     <<"k"," ","="," ","o","s",".","g","e","t","e","n","v","(","\"">> \o name \o <<"\"",")">>,
     <<"e","c","h","o"," ","$","{">> \o name \o <<"}">>,
     <<"e","c","h","o"," ","$">> \o name,
     <<"E","N","V"," ">> \o name \o <<" ","1">>,
     <<"S","y","s","t","e","m",".","g","e","t","e","n","v","(","\"">> \o name \o <<"\"",")",";">>,
     <<"E","n","v","i","r","o","n","m","e","n","t",".","G","e","t","E","n","v","i","r","o","n","m","e","n","t","V","a","r","i","a","b","l","e","(","\"">> \o name \o <<"\"",")",";">>,
     <<"E","N","V","[","\"">> \o name \o <<"\"","]">>,
     <<"g","e","t","e","n","v","(","'">> \o name \o <<"'",")",";">>,
     <<"$","_","E","N","V","[","\"">> \o name \o <<"\"","]",";">>,
     <<"n","a","m","e"," ","="," ","\"">> \o name \o <<"\"">>}

\* files of one reference, or of the same reference on two lines
ScanFiles ==
    {[status |-> "ok", lines |-> [k \in 1..n |-> Line(text)]] :
        text \in UNION {ReferenceForms(name) : name \in ScanNames}, n \in 1..2}

ScanFilePath == <<"a","p","p",".","j","s">>

\* 0.7 is the default of --min-confidence
ScanThresholds == {F02, F05, F07, F08}

RunScanFile ==
    /\ ~fileScan.returned
    /\ fileScan' = [fileScan EXCEPT
                        !.result = scanFile(fileScan.file, ScanFilePath, getCommonPatterns).result,
                        !.returned = TRUE]
    /\ UNCHANGED <<lintVars, parseVars, ruleRunVars, snake, scannerVars, cfg, singleRet,
                   legacyRet>>

RunRequiredVariables(minConfidence, minUsages) ==
    /\ fileScan.returned
    /\ ~fileScan.aggregated
    /\ \E required \in GetRequiredVariables(fileScan.result, minConfidence, minUsages) :
            fileScan' = [fileScan EXCEPT !.minConfidence = minConfidence,
                                         !.minUsages = minUsages,
                                         !.required = required,
                                         !.aggregated = TRUE]
    /\ UNCHANGED <<lintVars, parseVars, ruleRunVars, snake, scannerVars, cfg, singleRet,
                   legacyRet>>

InitScanFile ==
    /\ LintIdle
    /\ ParseIdle([status |-> "noopen", lines |-> <<>>])
    /\ RulesIdle(<<>>, <<>>)
    /\ SnakeIdle(<<>>)
    /\ ScannerIdle
    /\ CfgIdle(DefaultConfig)
    /\ SingleIdle
    /\ LegacyIdle
    /\ \E file \in ScanFiles : FileScanIdle(file)

NextScanFile ==
    \/ RunScanFile
    \/ \E minConfidence \in ScanThresholds, minUsages \in {1, 2} :
           RunRequiredVariables(minConfidence, minUsages)

SpecScanFile == InitScanFile /\ [][NextScanFile]_vars

(***************************************************************************)
(* Properties                                                              *)
(***************************************************************************)
LintDone == lintPc = "done"

\* the issues the configured linter has for one file taken alone
FileIssues(name) ==
    LET r == ParseWithIssues(Disk[name], name)
    IN  (IF includeParseIssues THEN Range(r.result.IssueList) ELSE {})
            \cup UNION {Range(out) : out \in UNION {RuleResults(rules[k], r.result.Vars, name) :
                                                       k \in 1..Len(rules)}}

Readable(name) == ParseWithIssues(Disk[name], name).err = NoError

\* C1: a hard failure on one file of a multi-file Lint run aborts only that
\* file: the issues of every file that can be read, listed before or after
\* it, are returned to the caller.
C1_OtherFilesStillReturned ==
    LintDone =>
        \A i \in 1..Len(files) :
            Readable(files[i]) => FileIssues(files[i]) \subseteq Range(lintRet.issues)

IssuesNamed(issues, name) == {j \in 1..Len(issues) : issues[j].Name = name}

EndToEndRun ==
    /\ LintDone
    /\ files = <<"e2e.env">>
    /\ rules = <<"Duplicate">>
    /\ includeParseIssues

\* C2: linting (parser plus Duplicate) the file PORT=8080 / blank / PORT=3000 /
\* MALFORMED LINE WITHOUT EQUALS / EMPTY_VAR= returns exactly one duplicate
\* issue (PORT, lines 1 and 3), one malformed-line issue at line 4, one
\* empty-value issue for EMPTY_VAR at line 5, and the parse gave exactly the
\* three variables PORT=8080@1, PORT=3000@3, EMPTY_VAR=@5.
C2_EndToEnd ==
    EndToEndRun =>
        LET out == lintRet.issues
            dup == IssuesNamed(out, "duplicate variable")
            bad == IssuesNamed(out, "malformed line")
            empty == IssuesNamed(out, "empty value")
        IN  /\ lintRet.err = NoError
            /\ Len(out) = 3
            /\ Cardinality(dup) = 1
            /\ \A j \in dup :
                   out[j].Key = <<"P","O","R","T">> /\ out[j].FirstLine = 1 /\ out[j].Line = 3
            /\ Cardinality(bad) = 1
            /\ \A j \in bad : out[j].FirstLine = 4 /\ out[j].Line = 4
            /\ Cardinality(empty) = 1
            /\ \A j \in empty :
                   out[j].Key = <<"E","M","P","T","Y","_","V","A","R">> /\ out[j].FirstLine = 5 /\ out[j].Line = 5
            /\ result.Vars = <<Var(<<"P","O","R","T">>, <<"8","0","8","0">>, 1), Var(<<"P","O","R","T">>, <<"3","0","0","0">>, 3),
                               Var(<<"E","M","P","T","Y","_","V","A","R">>, <<>>, 5)>>

C2_Witness == EndToEndRun /\ Len(lintRet.issues) = 3

\* a line that is neither blank nor a comment
ContentLine(text) == TrimSpace(text) # <<>> /\ Head(TrimSpace(text)) # "#"

HasEquals(text) == "=" \in Range(text)

\* the text before and after the first "=" of a line that has one, trimmed
KeyText(text) == TrimSpace(SubSeq(text, 1, Index(text, <<"=">>) - 1))

ValueText(text) == TrimSpace(SubSeq(text, Index(text, <<"=">>) + 1, Len(text)))

MalformedLine(text) ==
    /\ ContentLine(text)
    /\ \/ ~HasEquals(text)
       \/ KeyText(text) = <<>>
       \/ \E c \in Range(KeyText(text)) : c \in {" ", "\t"}
       \/ ValueText(text) = <<>>

WellFormedLine(text) == ContentLine(text) /\ ~MalformedLine(text)

ParseDone == parsePc = "done"

\* C3: the parser fails only on an I/O error: whatever the content of a file
\* that can be opened and read, the parse succeeds, every malformed line has an
\* issue at its line, and every well-formed line is recorded.
C3_ParseFailsOnlyOnIO ==
    (ParseDone /\ parseFile.status = "ok") =>
        /\ parseRet.err = NoError
        /\ \A i \in 1..Len(parseFile.lines) :
               /\ MalformedLine(parseFile.lines[i].text) =>
                      \E j \in 1..Len(parseRet.result.IssueList) :
                          parseRet.result.IssueList[j].FirstLine = i
               /\ WellFormedLine(parseFile.lines[i].text) =>
                      \E j \in 1..Len(parseRet.result.Vars) :
                          parseRet.result.Vars[j].Line = i

\* a syntactically valid KEY=VALUE line
ValidAssignment(text) ==
    /\ ContentLine(text)
    /\ HasEquals(text)
    /\ KeyText(text) # <<>>
    /\ \A c \in Range(KeyText(text)) : c \notin {" ", "\t"}

\* C4: for a file of N valid KEY=VALUE lines and no comment or blank line the
\* parser returns exactly N variables and no malformed-line or empty-key issue.
C4_ValidLinesAllRecorded ==
    ( /\ ParseDone
      /\ parseFile.status = "ok"
      /\ \A i \in 1..Len(parseFile.lines) : ValidAssignment(parseFile.lines[i].text) ) =>
        /\ parseRet.err = NoError
        /\ Len(parseRet.result.Vars) = Len(parseFile.lines)
        /\ IssuesNamed(parseRet.result.IssueList, "malformed line") = {}
        /\ IssuesNamed(parseRet.result.IssueList, "empty key") = {}

Occurrences(vs, key) == {i \in 1..Len(vs) : vs[i].Key = key}

Min(S) == CHOOSE x \in S : \A y \in S : x <= y

Max(S) == CHOOSE x \in S : \A y \in S : x >= y

IssuesKeyed(issues, key) == {j \in 1..Len(issues) : issues[j].Key = key}

\* C5: Duplicate returns exactly one issue for each key that occurs more than
\* once, from the line of its first occurrence to the line of its last, and
\* no issue for a key that occurs once (nor for any other key).
C5_DuplicateFirstAndLast ==
    ruleName = "Duplicate" =>
        /\ \A key \in ExistingKeys(ruleVars) :
               LET occ == Occurrences(ruleVars, key)
                   hits == IssuesKeyed(ruleOut, key)
               IN  IF Cardinality(occ) > 1
                   THEN /\ Cardinality(hits) = 1
                        /\ \A j \in hits :
                               /\ ruleOut[j].Name = "duplicate variable"
                               /\ ruleOut[j].FirstLine = ruleVars[Min(occ)].Line
                               /\ ruleOut[j].Line = ruleVars[Max(occ)].Line
                   ELSE hits = {}
        /\ \A j \in 1..Len(ruleOut) : ruleOut[j].Key \in ExistingKeys(ruleVars)

\* a key on three lines, all different: first, middle and last occurrence
C5_Witness ==
    /\ ruleName = "Duplicate"
    /\ \E key \in ExistingKeys(ruleVars) :
           LET occ == Occurrences(ruleVars, key)
           IN  /\ Cardinality(occ) >= 3
               /\ \A a, b \in occ : a # b => ruleVars[a].Line # ruleVars[b].Line
               /\ IssuesKeyed(ruleOut, key) # {}

\* the entries of the required list that name n
Entries(required, n) == {i \in 1..Len(required) : required[i] = n}

MissingIssueAt(j) ==
    /\ ruleOut[j].Name = "missing required variable"
    /\ ruleOut[j].FirstLine = 0
    /\ ruleOut[j].Line = 0

\* C6 as claimed: Missing returns exactly one issue, with lines 0 and 0, for
\* each required name that is absent from the file's keys, and none for a
\* required name that is present.
C6_OneIssuePerMissingName ==
    ruleName = "Missing" =>
        /\ \A n \in Range(requiredVars) :
               LET hits == IssuesKeyed(ruleOut, n)
               IN  IF n \notin ExistingKeys(ruleVars)
                   THEN Cardinality(hits) = 1 /\ \A j \in hits : MissingIssueAt(j)
                   ELSE hits = {}
        /\ \A j \in 1..Len(ruleOut) : ruleOut[j].Key \in Range(requiredVars)

\* C6 amended: Missing returns one issue, with lines 0 and 0, for each entry of
\* the required list whose name is absent from the file's keys (a name listed
\* k times gets k issues), and none for a required name that is present.
C6_OneIssuePerMissingEntry ==
    ruleName = "Missing" =>
        /\ \A n \in Range(requiredVars) :
               LET hits == IssuesKeyed(ruleOut, n)
               IN  IF n \notin ExistingKeys(ruleVars)
                   THEN /\ Cardinality(hits) = Cardinality(Entries(requiredVars, n))
                        /\ \A j \in hits : MissingIssueAt(j)
                   ELSE hits = {}
        /\ \A j \in 1..Len(ruleOut) : ruleOut[j].Key \in Range(requiredVars)

\* required [DATABASE_URL, API_KEY], only API_KEY defined: one issue
C6_Witness ==
    /\ ruleName = "Missing"
    /\ requiredVars = << <<"D","A","T","A","B","A","S","E","_","U","R","L">>, <<"A","P","I","_","K","E","Y">> >>
    /\ ExistingKeys(ruleVars) = {<<"A","P","I","_","K","E","Y">>}
    /\ Len(ruleOut) = 1
    /\ ruleOut[1].Key = <<"D","A","T","A","B","A","S","E","_","U","R","L">>

\* abbrev is one of the underscore-separated words of key
StandsAsWord(key, abbrev) ==
    \E i \in 1..(Len(key) - Len(abbrev) + 1) :
        /\ SubSeq(key, i, i + Len(abbrev) - 1) = abbrev
        /\ (i = 1 \/ key[i - 1] = "_")
        /\ (i + Len(abbrev) - 1 = Len(key) \/ key[i + Len(abbrev)] = "_")

\* C7: for a key in which a known abbreviation stands as a whole
\* underscore-separated word (DB_URL), Convention returns an issue whose
\* recommendations mention abbreviations and contain the key with the
\* abbreviation expanded (DATABASE_URL).
C7_AbbreviationExpanded ==
    ruleName = "Convention" =>
        \A i \in 1..Len(ruleVars), abbrev \in DOMAIN AbbreviationSuggestions :
            StandsAsWord(ruleVars[i].Key, abbrev) =>
                \E j \in 1..Len(ruleOut) :
                    /\ ruleOut[j].Key = ruleVars[i].Key
                    /\ ruleOut[j].FirstLine = ruleVars[i].Line
                    /\ \E r \in Range(ruleOut[j].Recommendations) :
                           r = Msg("Consider using full words instead of abbreviations")
                    /\ \E r \in Range(ruleOut[j].Recommendations) :
                           Contains(r, ReplaceAll(ruleVars[i].Key, abbrev,
                                                  AbbreviationSuggestions[abbrev]))

\* the issues returned for the variables with v's key and line
IssuesAt(v) ==
    {j \in 1..Len(ruleOut) : ruleOut[j].Key = v.Key /\ ruleOut[j].FirstLine = v.Line}

\* the variables with v's key and line for which a signal fires
Firing(v, candidates) ==
    {i \in candidates :
        /\ ruleVars[i].Key = v.Key
        /\ ruleVars[i].Line = v.Line
        /\ (IsSecretKey(ruleVars[i].Key) \/ LooksLikeSecret(ruleVars[i].Value))}

NotExempted == {i \in 1..Len(ruleVars) : ~IsSafePlaceholder(ruleVars[i].Value)}

NotExemptedNotEmpty == {i \in NotExempted : ruleVars[i].Value # <<>>}

SecretIssues ==
    \A j \in 1..Len(ruleOut) : ruleOut[j].Name = "potential secret in plaintext"

\* C8 as claimed: for every variable whose value is not a safe placeholder,
\* Security returns exactly one issue if the key signal or the value signal
\* fires, and none if neither does.
C8_OneIssuePerFiringVariable ==
    ruleName = "Security" =>
        /\ SecretIssues
        /\ \A i \in NotExempted :
               Cardinality(IssuesAt(ruleVars[i])) =
                   Cardinality(Firing(ruleVars[i], NotExempted))

\* C8 amended: for every variable whose value is not empty and not a safe
\* placeholder, Security returns exactly one issue if the key signal or the
\* value signal fires, and none if neither does; a variable with an empty
\* value gets no issue.
C8_OneIssuePerFiringNonEmptyVariable ==
    ruleName = "Security" =>
        /\ SecretIssues
        /\ \A i \in NotExempted :
               Cardinality(IssuesAt(ruleVars[i])) =
                   Cardinality(Firing(ruleVars[i], NotExemptedNotEmpty))

\* REAL_SECRET=sk_live_51H1234567890abcdef is reported
C8_Witness ==
    /\ ruleName = "Security"
    /\ \E i \in 1..Len(ruleVars) :
           /\ ruleVars[i].Key = <<"R","E","A","L","_","S","E","C","R","E","T">>
           /\ ruleVars[i].Value = <<"s","k","_","l","i","v","e","_","5","1","H","1","2","3","4","5","6","7","8","9","0","a","b","c","d","e","f">>
           /\ Cardinality(IssuesAt(ruleVars[i])) = 1

ValueSignalRec == Msg("Value appears to be a secret or API key")

\* a value of hexadecimal digits, of odd length, that has no other secret shape
OddHexOnly(v) ==
    /\ v # <<>>
    /\ AllIn(v, HexClass)
    /\ Len(v) % 2 = 1
    /\ ~MatchJWT(v) /\ ~MatchLongAlnum(v) /\ ~MatchBase64(v)
    /\ ~MatchAWS(v) /\ ~MatchGoogle(v)

\* C9: a hexadecimal value counts as secret-shaped through the hex shape only
\* with at least 16 characters and an even length: a hex value of odd length
\* that matches no other shape does not fire the value signal.
C9_OddHexDoesNotFire ==
    ruleName = "Security" =>
        \A i \in 1..Len(ruleVars) :
            OddHexOnly(ruleVars[i].Value) =>
                \A j \in IssuesAt(ruleVars[i]) :
                    ValueSignalRec \notin Range(ruleOut[j].Recommendations)

\* the case-folded value equals or contains a safe-placeholder word
HasSafeWord(value) ==
    \E w \in SafePlaceholders :
        \E i \in 1..(Len(value) - Len(w) + 1) :
            ToLower(SubSeq(value, i, i + Len(w) - 1)) = w

\* C10: a variable whose case-folded value equals or contains a safe-placeholder
\* word never gets an issue from Security, whatever its key and the shape of
\* its value.
C10_SafeWordExempts ==
    ruleName = "Security" =>
        \A i \in 1..Len(ruleVars) :
            HasSafeWord(ruleVars[i].Value) => IssuesAt(ruleVars[i]) = {}

\* API_SECRET=mytest123secretvalue: a secret key name, a value that only
\* contains a safe word, and no issue
C10_Witness ==
    /\ ruleName = "Security"
    /\ \E i \in 1..Len(ruleVars) :
           /\ ruleVars[i].Key = <<"A","P","I","_","S","E","C","R","E","T">>
           /\ ruleVars[i].Value = <<"m","y","t","e","s","t","1","2","3","s","e","c","r","e","t","v","a","l","u","e">>
           /\ IssuesAt(ruleVars[i]) = {}

\* key has the shape ^[A-Z][A-Z0-9_]*$
MatchesUpperSnake(key) ==
    /\ Len(key) >= 1
    /\ key[1] \in Upper
    /\ \A i \in 2..Len(key) : key[i] \in Upper \/ key[i] \in Digit \/ key[i] = "_"

\* key falls under one of the checks made whatever its shape: one character,
\* more than 50, a system variable, a generic name, a redundant prefix, a
\* known abbreviation standing as a word
TriggersIndependentCheck(key) ==
    \/ Len(key) = 1
    \/ Len(key) > 50
    \/ key \in SystemVars
    \/ key \in DOMAIN AntiPatterns
    \/ \E i \in 1..Len(RedundantPrefixes) : HasPrefix(key, RedundantPrefixes[i])
    \/ \E abbrev \in DOMAIN AbbreviationSuggestions : StandsAsWord(key, abbrev)

\* C11: Convention returns no issue for a key of the shape ^[A-Z][A-Z0-9_]*$
\* that falls under none of the independent checks (DATABASE_URL, API_KEY,
\* PORT, LOG_LEVEL), and for the key databaseUrl it returns an issue with a
\* "Try: " recommendation that contains DATABASE_URL.
C11_ValidKeysPassCamelCaseConverted ==
    ruleName = "Convention" =>
        \A i \in 1..Len(ruleVars) :
            /\ (MatchesUpperSnake(ruleVars[i].Key) /\ ~TriggersIndependentCheck(ruleVars[i].Key))
                   => IssuesAt(ruleVars[i]) = {}
            /\ ruleVars[i].Key = <<"d","a","t","a","b","a","s","e","U","r","l">> =>
                   /\ Cardinality(IssuesAt(ruleVars[i])) = 1
                   /\ \A j \in IssuesAt(ruleVars[i]) :
                          /\ ruleOut[j].Name = "naming convention violation"
                          /\ \E r \in Range(ruleOut[j].Recommendations) :
                                 /\ Head(r) = "Try: "
                                 /\ Contains(r, <<"D","A","T","A","B","A","S","E","_","U","R","L">>)

\* LOG_LEVEL and databaseUrl in one file: one issue, for databaseUrl
C11_Witness ==
    /\ ruleName = "Convention"
    /\ Len(ruleVars) = 2
    /\ ruleVars[1].Key = <<"L","O","G","_","L","E","V","E","L">>
    /\ ruleVars[2].Key = <<"d","a","t","a","b","a","s","e","U","r","l">>
    /\ Len(ruleOut) = 1
    /\ ruleOut[1].Key = <<"d","a","t","a","b","a","s","e","U","r","l">>

\* the places of s (between s[i] and s[i+1]) where a lowercase letter or a
\* digit is followed by an uppercase letter
HumpGaps(s) ==
    {i \in 1..(Len(s) - 1) : (s[i] \in Lower \/ s[i] \in Digit) /\ s[i + 1] \in Upper}

\* the places of s where an uppercase letter is followed by an uppercase
\* letter and then a lowercase one
AcronymGaps(s) ==
    {i \in 1..(Len(s) - 2) : s[i] \in Upper /\ s[i + 1] \in Upper /\ s[i + 2] \in Lower}

\* s with an underscore put in at each of the places of gaps
RECURSIVE WithUnderscores(_, _)
WithUnderscores(s, gaps) ==
    IF s = <<>> THEN <<>>
    ELSE LET n == Len(s)
             front == WithUnderscores(SubSeq(s, 1, n - 1), gaps)
         IN  IF (n - 1) \in gaps THEN front \o <<"_", s[n]>> ELSE Append(front, s[n])

Lowercased(s) ==
    [i \in 1..Len(s) |->
        IF \E k \in 1..26 : UpperSeq[k] = s[i]
        THEN LowerSeq[CHOOSE k \in 1..26 : UpperSeq[k] = s[i]]
        ELSE s[i]]

\* C12: convertCamelToSnake(s) is s with an underscore put between a lowercase
\* letter or digit and a following uppercase letter, then between an uppercase
\* letter and a following uppercase-then-lowercase pair, then lowercased; the
\* result has no uppercase letter, an s without uppercase letters is returned
\* as it is, and HTTPSProxy, XMLHttpRequest, URLPath, iPhone give https_proxy,
\* xml_http_request, url_path, i_phone.
C12_CamelToSnake ==
    snake.returned =>
        LET s == snake.s
            humps == WithUnderscores(s, HumpGaps(s))
            expected == Lowercased(WithUnderscores(humps, AcronymGaps(humps)))
        IN  /\ snake.result = expected
            /\ \A i \in 1..Len(snake.result) : snake.result[i] \notin Upper
            /\ (\A i \in 1..Len(s) : s[i] \notin Upper) => snake.result = s
            /\ s = <<"H","T","T","P","S","P","r","o","x","y">> => snake.result = <<"h","t","t","p","s","_","p","r","o","x","y">>
            /\ s = <<"X","M","L","H","t","t","p","R","e","q","u","e","s","t">> => snake.result = <<"x","m","l","_","h","t","t","p","_","r","e","q","u","e","s","t">>
            /\ s = <<"U","R","L","P","a","t","h">> => snake.result = <<"u","r","l","_","p","a","t","h">>
            /\ s = <<"i","P","h","o","n","e">> => snake.result = <<"i","_","p","h","o","n","e">>

\* XMLHttpRequest converted: both kinds of place occur in it
C12_Witness ==
    /\ snake.returned
    /\ snake.s = <<"X","M","L","H","t","t","p","R","e","q","u","e","s","t">>
    /\ snake.result = <<"x","m","l","_","h","t","t","p","_","r","e","q","u","e","s","t">>

ScanDone == scanPc = "done"

\* the paths of the entries of the errors sequence returned
ErrorPaths == {scanRet.result.Errors[k].path : k \in 1..Len(scanRet.result.Errors)}

\* C13: every file scanFile was called on and that could not be opened, or
\* whose read failed part-way, has an entry in the errors sequence of the
\* Scan Result returned.
C13_ReadFailuresCollected ==
    ScanDone => \A path \in readFailed : path \in ErrorPaths

\* the directories on the way from the root scanned down to path, the root included
Ancestors(path) ==
    {dir \in DOMAIN ScanTree :
        /\ ScanTree[dir].kind = "dir"
        /\ HasPrefix(dir, rootPath)
        /\ HasPrefix(path, Join(dir, <<>>))}

\* a file the walk comes to and can open: it lies under the root through
\* directories that can be listed and are not excluded, and it is of a kind
\* that is scanned
Eligible(path) ==
    /\ rootPath \in DOMAIN ScanTree
    /\ ScanTree[path].kind = "file"
    /\ HasPrefix(path, rootPath)
    /\ fault[path] \notin {"nolstat", "noopen"}
    /\ \E k \in 1..Len(DefaultIncludeExts) :
           HasSuffix(path, DefaultIncludeExts[k])
    /\ \A dir \in Ancestors(path) :
           /\ fault[dir] = "ok"
           /\ \A k \in 1..Len(excludePaths) : ~Contains(dir, excludePaths[k])

\* the usages the lines read from the file at path hold are all in the result returned
UsagesReturned(path) ==
    LET found == scanFile(OpenedFile(fault, path), path, getCommonPatterns).result.Variables
    IN  \A varName \in DOMAIN found :
            /\ varName \in DOMAIN scanRet.result.Variables
            /\ \A j \in 1..Len(found[varName]) :
                   \E k \in 1..Len(scanRet.result.Variables[varName]) :
                       scanRet.result.Variables[varName][k] = found[varName][j]

\* C14: whatever the root and whichever paths fail, ScanProject returns a Scan
\* Result and a nil error, and every eligible file is among the files scanned
\* with the usages of its lines in the result.
C14_ScanNeverAborts ==
    ScanDone =>
        /\ scanRet.err = NoError
        /\ \A path \in DOMAIN ScanTree :
               Eligible(path) =>
                   /\ \E k \in 1..Len(scanRet.result.Files) : scanRet.result.Files[k] = path
                   /\ UsagesReturned(path)

\* a directory that cannot be listed and a file that cannot be opened, and
\* the other file scanned all the same
C14_Witness ==
    /\ ScanDone
    /\ fault[<<"p","r","o","j","/","l","i","b">>] = "noread"
    /\ fault[<<"p","r","o","j","/","n","o","d","e","_","m","o","d","u","l","e","s","/","x",".","j","s">>] = "noopen"
    /\ excludePaths = <<>>
    /\ scanRet.result.Files = <<<<"p","r","o","j","/","a","p","p",".","j","s">>>>
    /\ Len(scanRet.result.Errors) = 2
    /\ <<"P","O","R","T">> \in DOMAIN scanRet.result.Variables

\* C15: once the caller has given exclusion entries of its own, a directory
\* whose path contains a built-in entry is still skipped, as is one whose
\* path contains an entry of the caller: no file under such a directory is
\* scanned.
C15_BuiltInExclusionsKept ==
    ScanDone =>
        \A k \in 1..Len(scanRet.result.Files) :
            \A dir \in Ancestors(scanRet.result.Files[k]) :
                /\ \A e \in 1..Len(DefaultExcludePaths) : ~Contains(dir, DefaultExcludePaths[e])
                /\ \A e \in 1..Len(excludePaths) : ~Contains(dir, excludePaths[e])

Plus(x, amount, applies) == IF applies THEN FloatAdd(x, amount) ELSE x

Minus(x, amount, applies) == IF applies THEN FloatSub(x, amount) ELSE x

ClampUnit(x) == IF FloatLess(F10, x) THEN F10 ELSE IF FloatLess(x, F00) THEN F00 ELSE x

EntirelyUppercase(name) == \A i \in 1..Len(name) : name[i] \notin Lower

AnyCommonWord(name) == \E k \in 1..Len(CommonEnvVars) : Contains(ToUpper(name), CommonEnvVars[k])

AnyMarker(line) == \E marker \in ContextMarkers : Contains(ToLower(line), marker)

\* the heuristic as stated, its terms added in the order stated
HeuristicScore(name, line) ==
    ClampUnit(
        Plus(Plus(Minus(Plus(Plus(F05,
            F03, EntirelyUppercase(name) /\ Len(name) > 1),
            F02, \E i \in 1..Len(name) : name[i] = "_"),
            F03, Len(name) <= 2),
            F02, AnyCommonWord(name)),
            F02, AnyMarker(line)))

\* C16: the confidence of a candidate name on a line is the clamp to [0, 1]
\* of 0.5, plus 0.3 for an all-uppercase name longer than one character, plus
\* 0.2 for an underscore, minus 0.3 for a length of at most 2, plus 0.2 once
\* when the uppercased name contains a common word (however many it contains),
\* plus 0.2 when the lowercased line contains a context marker; it lies in
\* [0.0, 1.0].
C16_ConfidenceHeuristic ==
    conf.returned =>
        /\ conf.confidence = HeuristicScore(conf.varName, conf.line)
        /\ FloatGeq(conf.confidence, F00)
        /\ FloatGeq(F10, conf.confidence)

\* a name holding two common words, scored 0.5 + 0.2 on a line with no marker
C16_Witness ==
    /\ conf.returned
    /\ conf.varName = <<"p","o","r","t","h","o","s","t">>
    /\ conf.line = <<"e","x","p","o","r","t"," ","X","=","1">>
    /\ conf.confidence = F07

\* C17: on the same line and with the same pattern, the confidence of a name
\* with _KEY appended is greater than or equal to the confidence of the name.
C17_KeySuffixNeverLowers ==
    (conf.returned /\ conf.keyedReturned) => FloatGeq(conf.keyed, conf.confidence)

\* a name of at most two characters, whose penalty the suffix lifts
C17_Witness ==
    /\ conf.returned
    /\ conf.keyedReturned
    /\ Len(conf.varName) <= 2
    /\ FloatLess(conf.confidence, conf.keyed)

\* the sum of the confidences, exact
RECURSIVE ExactTotal(_, _)
ExactTotal(usages, k) ==
    IF k = 0 THEN F00
    ELSE Normalized(ExactTotal(usages, k - 1).hi + usages[k].Confidence.hi,
                    ExactTotal(usages, k - 1).lo + usages[k].Confidence.lo)

\* the arithmetic mean of the confidences is at least the threshold
MeanAtLeast(usages, threshold) ==
    FloatGeq(ExactTotal(usages, Len(usages)),
             Normalized(Len(usages) * threshold.hi, Len(usages) * threshold.lo))

Listed(required, varName) == \E i \in 1..Len(required) : required[i] = varName

ListedOnce(required) ==
    \A i, j \in 1..Len(required) : required[i] = required[j] => i = j

Qualifies(varName) ==
    /\ varName \in DOMAIN agg.sr.Variables
    /\ Len(agg.sr.Variables[varName]) >= agg.minUsages
    /\ MeanAtLeast(agg.sr.Variables[varName], agg.minConfidence)

\* C18: a name is in the output of GetRequiredVariables if and only if it has
\* at least minUsages usages and the arithmetic mean of their confidences is
\* at least minConfidence; no name is in the output twice.
C18_RequiredIffFrequentAndConfident ==
    \A c \in 1..Len(agg.calls) :
        /\ \A varName \in AggNames : Listed(agg.calls[c], varName) <=> Qualifies(varName)
        /\ ListedOnce(agg.calls[c])

C20_RulesArePure ==
    [][(ruleName' = ruleName /\ ruleName # "none") =>
            (ruleOut' = ruleOut /\ ruleVars' = ruleVars)]_vars

Returned(name) == \E i \in 1..Len(lintRet.issues) : lintRet.issues[i].Name = name

\* C21: the syntax and empty_values flags of the configuration switch their
\* checks: a lint run with syntax false reports no malformed-line issue, and
\* a lint run with empty_values false reports no empty-value issue.
C21_SyntaxAndEmptyValueFlagsObeyed ==
    (LintDone /\ lintRet.err = NoError) =>
        /\ ~cfg.Rules.Syntax => ~Returned("malformed line")
        /\ ~cfg.Rules.EmptyValues => ~Returned("empty value")

\* the lines the parser records: content lines with an "=" and a key
RecordedLine(text) == ContentLine(text) /\ HasEquals(text) /\ KeyText(text) # <<>>

RecordedLines(file) == {i \in 1..Len(file.lines) : RecordedLine(file.lines[i].text)}

\* the j-th of a set of line numbers, in file order
NthOf(S, j) == CHOOSE i \in S : Cardinality({k \in S : k <= i}) = j

HasIssueAt(issueList, name, i) ==
    \E j \in 1..Len(issueList) : issueList[j].Name = name /\ issueList[j].FirstLine = i

\* C22: the variables returned for a file that can be read are, in file
\* order, the content lines that hold an "=" with a non-empty trimmed text
\* before the first one; key and value are the trimmed texts before and after
\* that first "="; a line with an empty key is not recorded, and a line whose
\* key holds a space or tab, or whose value is empty, is recorded and has its
\* issue as well.
C22_RecordingRule ==
    (ParseDone /\ parseFile.status = "ok") =>
        /\ Len(parseRet.result.Vars) = Cardinality(RecordedLines(parseFile))
        /\ \A j \in 1..Len(parseRet.result.Vars) :
               /\ parseRet.result.Vars[j].Key =
                      KeyText(parseFile.lines[NthOf(RecordedLines(parseFile), j)].text)
               /\ parseRet.result.Vars[j].Value =
                      ValueText(parseFile.lines[NthOf(RecordedLines(parseFile), j)].text)
        /\ \A i \in RecordedLines(parseFile) :
               /\ (\E c \in Range(KeyText(parseFile.lines[i].text)) : c \in {" ", "\t"}) =>
                      HasIssueAt(parseRet.result.IssueList, "invalid key format", i)
               /\ ValueText(parseFile.lines[i].text) = <<>> =>
                      HasIssueAt(parseRet.result.IssueList, "empty value", i)

\* the line with number i can have produced an issue with this name
ProducesIssue(text, name) ==
    CASE name = "malformed line" -> ContentLine(text) /\ ~HasEquals(text)
      [] name = "empty key" -> ContentLine(text) /\ HasEquals(text) /\ KeyText(text) = <<>>
      [] name = "invalid key format" ->
            RecordedLine(text) /\ \E c \in Range(KeyText(text)) : c \in {" ", "\t"}
      [] name = "empty value" -> RecordedLine(text) /\ ValueText(text) = <<>>
      [] OTHER -> FALSE

Processed == {i \in 1..scanned : RecordedLine(parseFile.lines[i].text)}

\* C23: after any prefix of the file has been processed, every variable's
\* line and every parse issue's first and last line is the 1-based number of
\* the physical line that produced it, blank, comment and malformed lines
\* counted; all are at least 1 and the variables are in strictly increasing
\* line order.
C23_LineNumbering ==
    /\ parseSt.lineNum = scanned
    /\ Len(parseSt.vars) = Cardinality(Processed)
    /\ \A j \in 1..Len(parseSt.vars) :
           /\ parseSt.vars[j].Line = NthOf(Processed, j)
           /\ parseSt.vars[j].Line >= 1
           /\ parseSt.vars[j].Key = KeyText(parseFile.lines[parseSt.vars[j].Line].text)
           /\ j > 1 => parseSt.vars[j - 1].Line < parseSt.vars[j].Line
    /\ \A j \in 1..Len(parseSt.issueList) :
           /\ parseSt.issueList[j].FirstLine \in 1..scanned
           /\ parseSt.issueList[j].Line = parseSt.issueList[j].FirstLine
           /\ ProducesIssue(parseFile.lines[parseSt.issueList[j].FirstLine].text,
                            parseSt.issueList[j].Name)

\* a variable and an issue produced after a blank line and a comment line
C23_Witness ==
    /\ scanned = 3
    /\ parseFile.lines[1].text = <<>>
    /\ parseFile.lines[2].text = <<"#"," ","c">>
    /\ Len(parseSt.vars) = 1
    /\ parseSt.vars[1].Line = 3
    /\ Len(parseSt.issueList) = 1
    /\ parseSt.issueList[1].FirstLine = 3

FileVars(name) == ParseWithIssues(Disk[name], name).result.Vars

\* what a file contributes before its rule issues
ParseSegment(name) ==
    IF includeParseIssues THEN ParseWithIssues(Disk[name], name).result.IssueList ELSE <<>>

\* the number of issues a rule has for a file: the same for each of its outputs
RuleLen(rule, name) == Len(CHOOSE out \in RuleResults(rule, FileVars(name), name) : TRUE)

RECURSIVE RulesLen(_, _)
RulesLen(name, k) ==
    IF k = 0 THEN 0 ELSE RulesLen(name, k - 1) + RuleLen(rules[k], name)

FileLen(name) ==
    IF Readable(name) THEN Len(ParseSegment(name)) + RulesLen(name, Len(rules)) ELSE 0

RECURSIVE FilesLen(_)
FilesLen(k) == IF k = 0 THEN 0 ELSE FilesLen(k - 1) + FileLen(files[k])

Segment(s, from, len) == SubSeq(s, from + 1, from + len)

\* C24: Lint returns, for the files in input order, the file's parse issues
\* (when parse issues are enabled) followed by the issues of each registered
\* rule in registration order, each rule evaluated on that file's variables
\* alone; no issue of a file is dropped, merged or deduplicated.
C24_LintOutputOrder ==
    LintDone =>
        /\ Len(lintRet.issues) = FilesLen(Len(files))
        /\ \A i \in 1..Len(files) :
               Readable(files[i]) =>
                   /\ Segment(lintRet.issues, FilesLen(i - 1), Len(ParseSegment(files[i])))
                          = ParseSegment(files[i])
                   /\ \A k \in 1..Len(rules) :
                          Segment(lintRet.issues,
                                  FilesLen(i - 1) + Len(ParseSegment(files[i]))
                                      + RulesLen(files[i], k - 1),
                                  RuleLen(rules[k], files[i]))
                              \in RuleResults(rules[k], FileVars(files[i]), files[i])

\* the paths the result names so far: the files scanned and the files of the usages
ResultPaths ==
    Range(scanResult.Files)
        \cup UNION {{scanResult.Variables[varName][k].File :
                        k \in 1..Len(scanResult.Variables[varName])} :
                    varName \in DOMAIN scanResult.Variables}

\* the extension or the exact base name of the path is in the allow-list
Allowed(path) ==
    \E k \in 1..Len(DefaultIncludeExts) :
        \/ Base(path) = DefaultIncludeExts[k]
        \/ /\ Head(DefaultIncludeExts[k]) = "."
           /\ HasSuffix(Base(path), DefaultIncludeExts[k])
           /\ "." \notin Range(SubSeq(Base(path), Len(Base(path)) - Len(DefaultIncludeExts[k]) + 2,
                                      Len(Base(path))))

\* the built-in entries and the entries the caller gave
ExcludedDir(dir, entries) == \E k \in 1..Len(entries) : Contains(dir, entries[k])

Excluded(dir) == ExcludedDir(dir, DefaultExcludePaths) \/ ExcludedDir(dir, excludePaths)

\* C25: at every point of the walk, every path among the files scanned and
\* every file of a usage is a regular file whose extension or exact base
\* name is in the allow-list and none of whose ancestor directories from the
\* root down has a path containing an exclusion entry; no directory whose path
\* contains an exclusion entry is descended into.
C25_ScanFiltering ==
    /\ \A path \in ResultPaths :
           /\ path \in DOMAIN ScanTree
           /\ ScanTree[path].kind = "file"
           /\ Allowed(path)
           /\ \A dir \in Ancestors(path) : ~Excluded(dir)
    /\ \A k \in 1..Len(pending) :
           \A dir \in Ancestors(pending[k]) : ~Excluded(dir)

\* C26: a match of the Generic string literal pattern gets a strictly lower
\* confidence than a match of the same variable name on the same line by a
\* language-specific pattern
GenericPattern == "Generic string literal"

UsagesFound(name) == fileScan.result.Variables[name]

C26_GenericLiteralScoresLower ==
    fileScan.returned =>
        \A name \in DOMAIN fileScan.result.Variables :
            \A i, j \in 1..Len(UsagesFound(name)) :
                (/\ UsagesFound(name)[i].Pattern = GenericPattern
                 /\ UsagesFound(name)[j].Pattern # GenericPattern
                 /\ UsagesFound(name)[i].Line = UsagesFound(name)[j].Line)
                    => FloatLess(UsagesFound(name)[i].Confidence,
                                 UsagesFound(name)[j].Confidence)

\* C29: each textual reference to a variable contributes exactly one usage
\* record, so a variable has as many usage records as references and one
\* referenced once is not returned when minUsages = 2
ReferenceAt(text, i, name) ==
    /\ i + Len(name) - 1 <= Len(text)
    /\ SubSeq(text, i, i + Len(name) - 1) = name
    /\ (i = 1 \/ text[i - 1] \notin NameChar)
    /\ (i + Len(name) > Len(text) \/ text[i + Len(name)] \notin NameChar)

ReferencesIn(text, name) == Cardinality({i \in 1..Len(text) : ReferenceAt(text, i, name)})

RECURSIVE References(_, _, _)
References(lines, n, name) ==
    IF n = 0 THEN 0
    ELSE References(lines, n - 1, name) + ReferencesIn(lines[n].text, name)

C29_OneReferenceOneUsage ==
    fileScan.returned =>
        \A name \in DOMAIN fileScan.result.Variables :
            /\ Len(fileScan.result.Variables[name])
                   = References(fileScan.file.lines, Len(fileScan.file.lines), name)
            /\ (/\ fileScan.aggregated
                /\ fileScan.minUsages = 2
                /\ References(fileScan.file.lines, Len(fileScan.file.lines), name) = 1)
                   => ~Listed(fileScan.required, name)

\* C30: a usage record of a name of at least 3 characters has confidence at
\* least 0.8 and every usage record at least 0.2, so a minConfidence of 0.8 or
\* less excludes only names of at most 2 characters
C30_ScoreLowerBounds ==
    /\ fileScan.returned =>
           \A name \in DOMAIN fileScan.result.Variables :
               \A i \in 1..Len(UsagesFound(name)) :
                   /\ Len(name) >= 3 => FloatGeq(UsagesFound(name)[i].Confidence, F08)
                   /\ FloatGeq(UsagesFound(name)[i].Confidence, F02)
    /\ (fileScan.aggregated /\ FloatGeq(F08, fileScan.minConfidence)) =>
           \A name \in DOMAIN fileScan.result.Variables :
               (/\ Len(name) >= 3
                /\ Len(fileScan.result.Variables[name]) >= fileScan.minUsages)
                   => Listed(fileScan.required, name)

\* C27: for every file the legacy Parser.Parse and EnhancedParser.Parse
\* return the same sequence of variable records, so every record returned
\* by either has a non-empty key
BothParsed == parsePc = "done" /\ legacyRet.err # "pending"

C27_ParsersAgree ==
    BothParsed =>
        /\ legacyRet.vars = parseRet.result.Vars
        /\ \A i \in 1..Len(legacyRet.vars) : legacyRet.vars[i].Key # <<>>

\* C28: for a single file f and every linter configuration, Lint([f])
\* returns the same issues as LintSingle(f).AllIssues(), and the TotalIssues
\* of LintSingle is the length of AllIssues()
BothLinted ==
    /\ lintPc = "done"
    /\ singleRet.err # "pending"
    /\ files = <<singleRet.file>>

C28_LintEntryPointsAgree ==
    /\ BothLinted =>
           /\ lintRet.err = singleRet.err
           /\ lintRet.issues = AllIssues(singleRet.result)
    /\ singleRet.err # "pending" =>
           singleRet.result.TotalIssues = Len(AllIssues(singleRet.result))

====
